---- MODULE Spec2Model ----
(***************************************************************************)
(* Model of the RSQL client driver: the session transport (writer, mutex,  *)
(* keepalive goroutine, Close), and the batch response state machine       *)
(* (Query, Execute, Next, Finalize, Scan) of package drv.                  *)
(***************************************************************************)
EXTENDS Integers, Sequences, FiniteSets, TLC

----------------------------------------------------------------------------
(* Program constants *)

RESTYP_RECORD_LAYOUT == 3
RESTYP_RECORD == 4
RESTYP_RECORD_FINISHED == 5
RESTYP_EXECUTION_FINISHED == 7
RESTYP_PRINT == 10
RESTYP_MESSAGE == 11
RESTYP_ERROR == 12
RESTYP_BATCH_END == 14

RESTYP_LOGIN_FAILED == 0
RESTYP_LOGIN_SUCCESS == 1
REQTYP_AUTH == 20

\* default keepalive interval of package drv, in seconds
KEEPALIVE_INTERVAL == 20

REQTYP_BATCH == 21
REQTYP_KEEPALIVE == 30

BATCH_TEXT_SIZE_MAX == 100000

sTATUS_BATCH_SENT == 1
sTATUS_RECORD_LAYOUT_AVAILABLE == 2
sTATUS_RECORD_AVAILABLE == 3
sTATUS_RECORD_END == 4
sTATUS_BATCH_END == 5

sTEP_NEXT_RECORD == 0
sTEP_FINALIZE == 1

DTYPE_VOID == 1
DTYPE_BOOLEAN == 2
DTYPE_VARBINARY == 4
DTYPE_VARCHAR == 6
DTYPE_BIT == 9
DTYPE_TINYINT == 10
DTYPE_SMALLINT == 11
DTYPE_INT == 12
DTYPE_BIGINT == 13
DTYPE_MONEY == 15
DTYPE_NUMERIC == 16
DTYPE_FLOAT == 17
DTYPE_DATE == 19
DTYPE_TIME == 20
DTYPE_DATETIME == 21

\* math.MaxUint8, the largest value Read_response_type accepts as a tag
MaxUint8 == 255

\* default size of the bufio.Writer that NewWriter creates
BufioSize == 4096

\* msgpack prefixes
M_UINT8 == 204
M_UINT16 == 205
M_UINT32 == 206
M_UINT64 == 207
M_INT8 == 208
M_INT16 == 209
M_INT32 == 210
M_INT64 == 211
M_NEGATIVE_FIXINT_BASE == 224
M_NIL == 192
M_FALSE == 194
M_TRUE == 195
M_FLOAT32 == 202
M_FLOAT64 == 203
M_FIXSTR_BASE == 160
M_STR8 == 217
M_STR16 == 218
M_STR32 == 219
M_BIN8 == 196
M_BIN16 == 197
M_BIN32 == 198
M_FIXARRAY_BASE == 144
M_ARRAY16 == 220
M_ARRAY32 == 221
M_FIXMAP_BASE == 128
M_MAP16 == 222
M_MAP32 == 223
PREFIX_FIXSTR_MASK == 224
PREFIX_FIXARRAY_MASK == 240
PREFIX_FIXMAP_MASK == 240

----------------------------------------------------------------------------
(* Bounds of the model *)

\* batches that Query/Execute may create
MaxBatches == 2
\* batches that Query/Execute may create when the server sends whole streams
MaxStreams == 1
\* Record messages the server sends in one recordset
MaxRows == 1
\* RecordLayout messages the server sends in one batch
MaxRecordsets == 2
\* calls of Session.Close
MaxCloseCalls == 2
\* ticks of the keepalive ticker
MaxTicks == 1
\* response messages in flight between server and client
MaxQueue == 1

----------------------------------------------------------------------------
(* Threads *)

Users == {"u1", "u2"}
Closers == {"c1"}

----------------------------------------------------------------------------
(* Errors.  An error value is a record; NoErr is Go's nil error. *)

Err(k, state) == [k |-> k, state |-> state]
NoErr == Err("nil", 0)
ErrClosed == Err("use of closed network connection", 0)
ErrReset == Err("broken pipe", 0)
ErrEOF == Err("EOF", 0)
ErrProtocol == Err("msgp", 0)
ErrUnknownDatatype == Err("Unknown datatype received", 0)
ErrMismatch == Err("Batch: recordcount mismatch (RSQL bug).", 0)
ErrDirty == Err("Batch: connection still contains data from previous batch.", 0)
ErrTooLarge == Err("Connection closed by server. Batch size too large", BATCH_TEXT_SIZE_MAX)
ErrScanNoRecord == Err("scan: record not available.", 0)
ErrScanCount == Err("scan: dest arguments count", 0)
ErrScanOverflow == Err("scan: overflow.", 0)
ErrScanKind == Err("scan: destination type not supported.", 0)

\* newBatchError: the fields of the server's Error_info that BatchError.Error
\* prints
newBatchError(e) ==
    [k |-> "BatchError", state |-> e.state, lineNo |-> e.line_no,
     linePos |-> e.line_pos, text |-> e.text]

\* BatchError.Error: fmt.Sprintf("%d:%d[%d] %s", LineNo, LinePos, State, Text)
BatchErrorText(be) ==
    ToString(be.lineNo) \o ":" \o ToString(be.linePos) \o "["
        \o ToString(be.state) \o "] " \o be.text

IsTransportErr(e) == e \in {ErrClosed, ErrReset, ErrEOF}

----------------------------------------------------------------------------
(* Go slices and maps that may be nil *)

NilSlice == [nil |-> TRUE, v |-> <<>>]
Slice(s) == [nil |-> FALSE, v |-> s]
EmptyMap == [x \in {} |-> 0]
NilMap == [nil |-> TRUE, v |-> EmptyMap]
Map(m) == [nil |-> FALSE, v |-> m]

----------------------------------------------------------------------------
(* The msgpack Writer over a bufio.Writer over the socket.                 *)
(* A fragment is a run of n bytes of one request: the tag byte of batch    *)
(* req, bytes of its text (header and payload), or a keepalive byte.       *)

Frag(req, kind, n) == [req |-> req, kind |-> kind, n |-> n]

RECURSIVE FragsSize(_)
FragsSize(s) == IF s = <<>> THEN 0 ELSE Head(s).n + FragsSize(Tail(s))

\* AppendStringHeader: the size of the header of a string of sz bytes
StringHeaderSize(sz) ==
    IF sz <= 31 THEN 1
    ELSE IF sz <= 255 THEN 2
    ELSE IF sz <= 65535 THEN 3
    ELSE 5

\* AppendStringFromBytes: header, then the bytes
StringSize(sz) == StringHeaderSize(sz) + sz

\* the error of a write on the socket, NoErr when the socket takes it
ConnWriteErr(closed, peer) ==
    IF closed THEN ErrClosed ELSE IF peer THEN ErrReset ELSE NoErr

\* bufio.Writer.Flush: w is [buf, berr, doomed], e the socket's answer
BufioFlush(w, e) ==
    IF w.berr # NoErr THEN [mw |-> w, out |-> <<>>, err |-> w.berr]
    ELSE IF w.buf = <<>> THEN [mw |-> w, out |-> <<>>, err |-> NoErr]
    ELSE IF e # NoErr THEN [mw |-> [w EXCEPT !.berr = e], out |-> <<>>, err |-> e]
    ELSE [mw |-> [w EXCEPT !.buf = <<>>], out |-> w.buf, err |-> NoErr]

\* bufio.Writer.Write of the fragment p
RECURSIVE BufioWrite(_, _, _)
BufioWrite(w, p, e) ==
    LET avail == BufioSize - FragsSize(w.buf) IN
    IF w.berr # NoErr THEN [mw |-> w, out |-> <<>>, err |-> w.berr]
    ELSE IF p.n <= avail
    THEN [mw |-> [w EXCEPT !.buf = IF p.n = 0 THEN @ ELSE Append(@, p)],
          out |-> <<>>, err |-> NoErr]
    ELSE IF w.buf = <<>>
    THEN \* large write, empty buffer: write directly to the socket
         IF e # NoErr
         THEN [mw |-> [w EXCEPT !.berr = e], out |-> <<>>, err |-> e]
         ELSE [mw |-> w, out |-> <<p>>, err |-> NoErr]
    ELSE LET part == [p EXCEPT !.n = avail]
             rest == [p EXCEPT !.n = p.n - avail]
             full == [w EXCEPT !.buf = IF avail = 0 THEN @ ELSE Append(@, part)]
             fl == BufioFlush(full, e)
         IN  IF fl.err # NoErr THEN fl
             ELSE LET more == BufioWrite(fl.mw, rest, e)
                  IN  [mw |-> more.mw, out |-> fl.out \o more.out, err |-> more.err]

\* Writer.WriteUint8 / WriteStringFromBytes: nothing when doomed
WriterWrite(w, p, e) ==
    IF w.doomed # NoErr THEN [mw |-> w, out |-> <<>>, err |-> NoErr]
    ELSE LET r == BufioWrite(w, p, e)
         IN  IF r.err # NoErr
             THEN [mw |-> [r.mw EXCEPT !.doomed = r.err], out |-> r.out, err |-> NoErr]
             ELSE r

\* a Flush that returns the failure without keeping it
WriterFlush_DropsError(w, e) ==
    IF w.doomed # NoErr THEN [mw |-> w, out |-> <<>>, err |-> w.doomed]
    ELSE BufioFlush(w, e)

\* Writer.Flush
WriterFlush(w, e) ==
    IF w.doomed # NoErr THEN [mw |-> w, out |-> <<>>, err |-> w.doomed]
    ELSE LET r == BufioFlush(w, e)
         IN  IF r.err # NoErr
             THEN [mw |-> [r.mw EXCEPT !.doomed = r.err], out |-> r.out, err |-> r.err]
             ELSE r

\* a Send_batch that translates the error from a text of the limit's size on
SendBatchErr_AtLimit(err, len) == IF len >= BATCH_TEXT_SIZE_MAX THEN ErrTooLarge ELSE err

\* Send_batch: the error returned after a failed flush
SendBatchErr(err, len) == IF len > BATCH_TEXT_SIZE_MAX THEN ErrTooLarge ELSE err

----------------------------------------------------------------------------
(* The msgpack codec for integers.  A 64-bit value, uint64 or int64, is    *)
(* the tuple of its 8 bytes, most significant first; an int64 is in two's  *)
(* complement.                                                             *)

\* the 64-bit value of the integer n, which is within 32 bits
Word(n) ==
    [k \in 1..8 |-> IF k <= 4 THEN (IF n < 0 THEN 255 ELSE 0)
                    ELSE (n \div (256 ^ (8 - k))) % 256]

\* uint64(x) of an unsigned value x of Len(bs) bytes
ZeroExtend(bs) ==
    [k \in 1..8 |-> IF k <= 8 - Len(bs) THEN 0 ELSE bs[k - (8 - Len(bs))]]

\* int64(x) of a signed value x of Len(bs) bytes
SignExtend(bs) ==
    [k \in 1..8 |-> IF k <= 8 - Len(bs) THEN (IF bs[1] >= 128 THEN 255 ELSE 0)
                    ELSE bs[k - (8 - Len(bs))]]

\* a <= b for uint64 values
ULe(a, b) ==
    \/ a = b
    \/ \E i \in 1..8 : a[i] < b[i] /\ \A j \in 1..(i - 1) : a[j] = b[j]

\* a <= b for int64 values
SLe(a, b) ==
    ULe([a EXCEPT ![1] = (@ + 128) % 256], [b EXCEPT ![1] = (@ + 128) % 256])

MaxUint16 == Word(65535)
MaxUint32 == <<0, 0, 0, 0, 255, 255, 255, 255>>
MaxUint64 == <<255, 255, 255, 255, 255, 255, 255, 255>>
MinInt8 == Word(-128)
MaxInt8 == Word(127)
MinInt16 == Word(-32768)
MaxInt16 == Word(32767)
MinInt32 == Word(-2147483647 - 1)
MaxInt32 == Word(2147483647)
MinInt64 == <<128, 0, 0, 0, 0, 0, 0, 0>>
MaxInt64 == <<127, 255, 255, 255, 255, 255, 255, 255>>

\* the last n bytes of val: uint8(val>>8*(n-1)), ..., uint8(val)
LowBytes(val, n) == [k \in 1..n |-> val[8 - n + k]]

AppendUint64(dest, val) ==
    IF ULe(val, Word(127)) THEN dest \o LowBytes(val, 1)
    ELSE IF ULe(val, Word(MaxUint8)) THEN dest \o <<M_UINT8>> \o LowBytes(val, 1)
    ELSE IF ULe(val, MaxUint16) THEN dest \o <<M_UINT16>> \o LowBytes(val, 2)
    ELSE IF ULe(val, MaxUint32) THEN dest \o <<M_UINT32>> \o LowBytes(val, 4)
    ELSE dest \o <<M_UINT64>> \o LowBytes(val, 8)

\* an AppendInt64 that encodes the non-negative values as AppendUint64 does
AppendInt64_UnsignedTable(dest, val) ==
    IF SLe(Word(0), val) THEN AppendUint64(dest, val)
    ELSE IF SLe(Word(-32), val) THEN dest \o LowBytes(val, 1)
    ELSE IF SLe(MinInt8, val) THEN dest \o <<M_INT8>> \o LowBytes(val, 1)
    ELSE IF SLe(MinInt16, val) THEN dest \o <<M_INT16>> \o LowBytes(val, 2)
    ELSE IF SLe(MinInt32, val) THEN dest \o <<M_INT32>> \o LowBytes(val, 4)
    ELSE dest \o <<M_INT64>> \o LowBytes(val, 8)

AppendInt64(dest, val) ==
    IF SLe(Word(0), val)
    THEN IF SLe(val, Word(127)) THEN dest \o LowBytes(val, 1)
         ELSE IF SLe(val, MaxInt16) THEN dest \o <<M_INT16>> \o LowBytes(val, 2)
         ELSE IF SLe(val, MaxInt32) THEN dest \o <<M_INT32>> \o LowBytes(val, 4)
         ELSE dest \o <<M_INT64>> \o LowBytes(val, 8)
    ELSE IF SLe(Word(-32), val) THEN dest \o LowBytes(val, 1)
    ELSE IF SLe(MinInt8, val) THEN dest \o <<M_INT8>> \o LowBytes(val, 1)
    ELSE IF SLe(MinInt16, val) THEN dest \o <<M_INT16>> \o LowBytes(val, 2)
    ELSE IF SLe(MinInt32, val) THEN dest \o <<M_INT32>> \o LowBytes(val, 4)
    ELSE dest \o <<M_INT64>> \o LowBytes(val, 8)

\* the result of a read: the value, the error ("nil": none), and the bytes
\* left in the Reader
ReadRes(val, err, br) == [val |-> val, err |-> err, br |-> br]

\* read_N: exactly n bytes, or an error that leaves nothing to read
ReadN(br, n) ==
    IF Len(br) < n THEN [buff |-> <<>>, err |-> "EOF", br |-> <<>>]
    ELSE [buff |-> SubSeq(br, 1, n), err |-> "nil", br |-> SubSeq(br, n + 1, Len(br))]

\* read_raw_uint8 .. read_raw_uint64: an unsigned value of n bytes
ReadRawUint(br, n) ==
    LET r == ReadN(br, n) IN
    IF r.err # "nil" THEN ReadRes(Word(0), r.err, r.br)
    ELSE ReadRes(ZeroExtend(r.buff), "nil", r.br)

\* read_raw_int8 .. read_raw_int64: a signed value of n bytes
ReadRawInt(br, n) ==
    LET r == ReadN(br, n) IN
    IF r.err # "nil" THEN ReadRes(Word(0), r.err, r.br)
    ELSE ReadRes(SignExtend(r.buff), "nil", r.br)

\* a ReadUint64 that takes two bytes after every prefix
ReadUint64_TwoBytes(br) ==
    LET p == ReadN(br, 1) IN
    IF p.err # "nil" THEN ReadRes(Word(0), p.err, p.br)
    ELSE LET prefix == p.buff[1] IN
         IF prefix <= 127 THEN ReadRes(ZeroExtend(<<prefix>>), "nil", p.br)
         ELSE IF prefix \in {M_UINT8, M_UINT16, M_UINT32, M_UINT64}
         THEN ReadRawUint(p.br, 2)
         ELSE ReadRes(Word(0), "bad prefix", p.br)

ReadUint64(br) ==
    LET p == ReadN(br, 1) IN
    IF p.err # "nil" THEN ReadRes(Word(0), p.err, p.br)
    ELSE LET prefix == p.buff[1] IN
         IF prefix <= 127 THEN ReadRes(ZeroExtend(<<prefix>>), "nil", p.br)
         ELSE IF prefix = M_UINT8 THEN ReadRawUint(p.br, 1)
         ELSE IF prefix = M_UINT16 THEN ReadRawUint(p.br, 2)
         ELSE IF prefix = M_UINT32 THEN ReadRawUint(p.br, 4)
         ELSE IF prefix = M_UINT64 THEN ReadRawUint(p.br, 8)
         ELSE ReadRes(Word(0), "bad prefix", p.br)

\* a ReadInt64 that does not extend the sign
ReadInt64_Unsigned(br) ==
    LET p == ReadN(br, 1) IN
    IF p.err # "nil" THEN ReadRes(Word(0), p.err, p.br)
    ELSE LET prefix == p.buff[1] IN
         IF prefix <= 127 THEN ReadRes(ZeroExtend(<<prefix>>), "nil", p.br)
         ELSE IF prefix >= M_NEGATIVE_FIXINT_BASE
         THEN ReadRes(ZeroExtend(<<prefix>>), "nil", p.br)
         ELSE IF prefix = M_INT8 THEN ReadRawUint(p.br, 1)
         ELSE IF prefix = M_INT16 THEN ReadRawUint(p.br, 2)
         ELSE IF prefix = M_INT32 THEN ReadRawUint(p.br, 4)
         ELSE IF prefix = M_INT64 THEN ReadRawUint(p.br, 8)
         ELSE ReadRes(Word(0), "bad prefix", p.br)

ReadInt64(br) ==
    LET p == ReadN(br, 1) IN
    IF p.err # "nil" THEN ReadRes(Word(0), p.err, p.br)
    ELSE LET prefix == p.buff[1] IN
         IF prefix <= 127 THEN ReadRes(ZeroExtend(<<prefix>>), "nil", p.br)
         ELSE IF prefix >= M_NEGATIVE_FIXINT_BASE
         THEN ReadRes(SignExtend(<<prefix>>), "nil", p.br)
         ELSE IF prefix = M_INT8 THEN ReadRawInt(p.br, 1)
         ELSE IF prefix = M_INT16 THEN ReadRawInt(p.br, 2)
         ELSE IF prefix = M_INT32 THEN ReadRawInt(p.br, 4)
         ELSE IF prefix = M_INT64 THEN ReadRawInt(p.br, 8)
         ELSE ReadRes(Word(0), "bad prefix", p.br)

\* the largest and the smallest value of uintN and intN
MaxUintN(n) == IF n = 8 THEN Word(MaxUint8) ELSE IF n = 16 THEN MaxUint16
               ELSE IF n = 32 THEN MaxUint32 ELSE MaxUint64
MaxIntN(n) == IF n = 8 THEN MaxInt8 ELSE IF n = 16 THEN MaxInt16
              ELSE IF n = 32 THEN MaxInt32 ELSE MaxInt64
MinIntN(n) == IF n = 8 THEN MinInt8 ELSE IF n = 16 THEN MinInt16
              ELSE IF n = 32 THEN MinInt32 ELSE MinInt64

\* a ReadUint8, ReadUint16, ReadUint32 that truncates
ReadUintN_Truncates(br, n) == ReadUint64(br)

\* ReadUint8, ReadUint16, ReadUint32 (n = 64: ReadUint64)
ReadUintN(br, n) ==
    LET r == ReadUint64(br) IN
    IF r.err # "nil" THEN ReadRes(Word(0), r.err, r.br)
    ELSE IF ~ULe(r.val, MaxUintN(n)) THEN ReadRes(Word(0), "overflow", r.br)
    ELSE r

\* ReadInt8, ReadInt16, ReadInt32 (n = 64: ReadInt64)
ReadIntN(br, n) ==
    LET r == ReadInt64(br) IN
    IF r.err # "nil" THEN ReadRes(Word(0), r.err, r.br)
    ELSE IF ~SLe(MinIntN(n), r.val) \/ ~SLe(r.val, MaxIntN(n))
    THEN ReadRes(Word(0), "overflow", r.br)
    ELSE r

\* prefix & mask, for a mask that keeps the most significant bits
HighBits(prefix, mask) == prefix - (prefix % (256 - mask))

\* first_bits_4, first_bits_5
first_bits_4(b) == b % 16
first_bits_5(b) == b % 32

\* peek_byte: the first byte, which stays in the Reader
peek_byte(br) ==
    IF Len(br) < 1 THEN [bb |-> 0, err |-> "EOF"] ELSE [bb |-> br[1], err |-> "nil"]

\* a NextType that classifies the positive fixints as unsigned
NextType_FixintIsUint(br) ==
    LET p == peek_byte(br) IN
    IF p.err # "nil" THEN [type |-> "InvalidType", err |-> p.err]
    ELSE LET prefix == p.bb IN
         [type |-> IF prefix <= 127 THEN "UintType"
                   ELSE IF prefix >= M_NEGATIVE_FIXINT_BASE THEN "IntType"
                   ELSE IF HighBits(prefix, PREFIX_FIXSTR_MASK) = M_FIXSTR_BASE THEN "StrType"
                   ELSE IF HighBits(prefix, PREFIX_FIXARRAY_MASK) = M_FIXARRAY_BASE THEN "ArrayType"
                   ELSE IF HighBits(prefix, PREFIX_FIXMAP_MASK) = M_FIXMAP_BASE THEN "MapType"
                   ELSE IF prefix = M_NIL THEN "NilType"
                   ELSE IF prefix \in {M_FALSE, M_TRUE} THEN "BoolType"
                   ELSE IF prefix \in {M_BIN8, M_BIN16, M_BIN32} THEN "BinType"
                   ELSE IF prefix = M_FLOAT32 THEN "Float32Type"
                   ELSE IF prefix = M_FLOAT64 THEN "Float64Type"
                   ELSE IF prefix \in {M_UINT8, M_UINT16, M_UINT32, M_UINT64} THEN "UintType"
                   ELSE IF prefix \in {M_INT8, M_INT16, M_INT32, M_INT64} THEN "IntType"
                   ELSE IF prefix \in {M_STR8, M_STR16, M_STR32} THEN "StrType"
                   ELSE IF prefix \in {M_ARRAY16, M_ARRAY32} THEN "ArrayType"
                   ELSE IF prefix \in {M_MAP16, M_MAP32} THEN "MapType"
                   ELSE "InvalidType",
          err |-> "nil"]

NextType(br) ==
    LET p == peek_byte(br) IN
    IF p.err # "nil" THEN [type |-> "InvalidType", err |-> p.err]
    ELSE LET prefix == p.bb IN
         [type |-> IF prefix <= 127 THEN "IntType"
                   ELSE IF prefix >= M_NEGATIVE_FIXINT_BASE THEN "IntType"
                   ELSE IF HighBits(prefix, PREFIX_FIXSTR_MASK) = M_FIXSTR_BASE THEN "StrType"
                   ELSE IF HighBits(prefix, PREFIX_FIXARRAY_MASK) = M_FIXARRAY_BASE THEN "ArrayType"
                   ELSE IF HighBits(prefix, PREFIX_FIXMAP_MASK) = M_FIXMAP_BASE THEN "MapType"
                   ELSE IF prefix = M_NIL THEN "NilType"
                   ELSE IF prefix \in {M_FALSE, M_TRUE} THEN "BoolType"
                   ELSE IF prefix \in {M_BIN8, M_BIN16, M_BIN32} THEN "BinType"
                   ELSE IF prefix = M_FLOAT32 THEN "Float32Type"
                   ELSE IF prefix = M_FLOAT64 THEN "Float64Type"
                   ELSE IF prefix \in {M_UINT8, M_UINT16, M_UINT32, M_UINT64} THEN "UintType"
                   ELSE IF prefix \in {M_INT8, M_INT16, M_INT32, M_INT64} THEN "IntType"
                   ELSE IF prefix \in {M_STR8, M_STR16, M_STR32} THEN "StrType"
                   ELSE IF prefix \in {M_ARRAY16, M_ARRAY32} THEN "ArrayType"
                   ELSE IF prefix \in {M_MAP16, M_MAP32} THEN "MapType"
                   ELSE "InvalidType",
          err |-> "nil"]

\* the headers of strings, byte slices, arrays and maps; sz is a uint32.
\* M_FIX*_BASE | uint8(sz) is a sum, as sz has no bit in common with the base.
AppendStringHeader(dest, sz) ==
    IF ULe(sz, Word(31)) THEN dest \o <<M_FIXSTR_BASE + LowBytes(sz, 1)[1]>>
    ELSE IF ULe(sz, Word(MaxUint8)) THEN dest \o <<M_STR8>> \o LowBytes(sz, 1)
    ELSE IF ULe(sz, MaxUint16) THEN dest \o <<M_STR16>> \o LowBytes(sz, 2)
    ELSE dest \o <<M_STR32>> \o LowBytes(sz, 4)

AppendBytesHeader(dest, sz) ==
    IF ULe(sz, Word(MaxUint8)) THEN dest \o <<M_BIN8>> \o LowBytes(sz, 1)
    ELSE IF ULe(sz, MaxUint16) THEN dest \o <<M_BIN16>> \o LowBytes(sz, 2)
    ELSE dest \o <<M_BIN32>> \o LowBytes(sz, 4)

AppendArrayHeader(dest, sz) ==
    IF ULe(sz, Word(15)) THEN dest \o <<M_FIXARRAY_BASE + LowBytes(sz, 1)[1]>>
    ELSE IF ULe(sz, MaxUint16) THEN dest \o <<M_ARRAY16>> \o LowBytes(sz, 2)
    ELSE dest \o <<M_ARRAY32>> \o LowBytes(sz, 4)

AppendMapHeader(dest, sz) ==
    IF ULe(sz, Word(15)) THEN dest \o <<M_FIXMAP_BASE + LowBytes(sz, 1)[1]>>
    ELSE IF ULe(sz, MaxUint16) THEN dest \o <<M_MAP16>> \o LowBytes(sz, 2)
    ELSE dest \o <<M_MAP32>> \o LowBytes(sz, 4)

\* a ReadStringHeader that takes the whole prefix of a fixstr as the size
ReadStringHeader_WholePrefix(br) ==
    LET p == ReadN(br, 1) IN
    IF p.err # "nil" THEN ReadRes(Word(0), p.err, p.br)
    ELSE LET prefix == p.buff[1] IN
         IF HighBits(prefix, PREFIX_FIXSTR_MASK) = M_FIXSTR_BASE
         THEN ReadRes(Word(prefix), "nil", p.br)
         ELSE IF prefix = M_STR8 THEN ReadRawUint(p.br, 1)
         ELSE IF prefix = M_STR16 THEN ReadRawUint(p.br, 2)
         ELSE IF prefix = M_STR32 THEN ReadRawUint(p.br, 4)
         ELSE ReadRes(Word(0), "bad prefix", p.br)

ReadStringHeader(br) ==
    LET p == ReadN(br, 1) IN
    IF p.err # "nil" THEN ReadRes(Word(0), p.err, p.br)
    ELSE LET prefix == p.buff[1] IN
         IF HighBits(prefix, PREFIX_FIXSTR_MASK) = M_FIXSTR_BASE
         THEN ReadRes(Word(first_bits_5(prefix)), "nil", p.br)
         ELSE IF prefix = M_STR8 THEN ReadRawUint(p.br, 1)
         ELSE IF prefix = M_STR16 THEN ReadRawUint(p.br, 2)
         ELSE IF prefix = M_STR32 THEN ReadRawUint(p.br, 4)
         ELSE ReadRes(Word(0), "bad prefix", p.br)

ReadBytesHeader(br) ==
    LET p == ReadN(br, 1) IN
    IF p.err # "nil" THEN ReadRes(Word(0), p.err, p.br)
    ELSE LET prefix == p.buff[1] IN
         IF prefix = M_BIN8 THEN ReadRawUint(p.br, 1)
         ELSE IF prefix = M_BIN16 THEN ReadRawUint(p.br, 2)
         ELSE IF prefix = M_BIN32 THEN ReadRawUint(p.br, 4)
         ELSE ReadRes(Word(0), "bad prefix", p.br)

ReadArrayHeader(br) ==
    LET p == ReadN(br, 1) IN
    IF p.err # "nil" THEN ReadRes(Word(0), p.err, p.br)
    ELSE LET prefix == p.buff[1] IN
         IF HighBits(prefix, PREFIX_FIXARRAY_MASK) = M_FIXARRAY_BASE
         THEN ReadRes(Word(first_bits_4(prefix)), "nil", p.br)
         ELSE IF prefix = M_ARRAY16 THEN ReadRawUint(p.br, 2)
         ELSE IF prefix = M_ARRAY32 THEN ReadRawUint(p.br, 4)
         ELSE ReadRes(Word(0), "bad prefix", p.br)

ReadMapHeader(br) ==
    LET p == ReadN(br, 1) IN
    IF p.err # "nil" THEN ReadRes(Word(0), p.err, p.br)
    ELSE LET prefix == p.buff[1] IN
         IF HighBits(prefix, PREFIX_FIXMAP_MASK) = M_FIXMAP_BASE
         THEN ReadRes(Word(first_bits_4(prefix)), "nil", p.br)
         ELSE IF prefix = M_MAP16 THEN ReadRawUint(p.br, 2)
         ELSE IF prefix = M_MAP32 THEN ReadRawUint(p.br, 4)
         ELSE ReadRes(Word(0), "bad prefix", p.br)

\* the encoder and the reader of the headers of one family
AppendHeader(family, dest, sz) ==
    IF family = "str" THEN AppendStringHeader(dest, sz)
    ELSE IF family = "bin" THEN AppendBytesHeader(dest, sz)
    ELSE IF family = "array" THEN AppendArrayHeader(dest, sz)
    ELSE AppendMapHeader(dest, sz)

ReadHeader(family, br) ==
    IF family = "str" THEN ReadStringHeader(br)
    ELSE IF family = "bin" THEN ReadBytesHeader(br)
    ELSE IF family = "array" THEN ReadArrayHeader(br)
    ELSE ReadMapHeader(br)

----------------------------------------------------------------------------
(* Varchar.read_value.  A text is the sequence of its bytes.               *)

\* ReadNil
ReadNil(br) ==
    LET p == ReadN(br, 1) IN
    IF p.err # "nil" THEN [err |-> p.err, br |-> p.br]
    ELSE IF p.buff[1] = M_NIL THEN [err |-> "nil", br |-> p.br]
    ELSE [err |-> "bad prefix", br |-> p.br]

\* ReadStringAsBytes: the header, then as many bytes as it says; a size is
\* below 2^31 here
ReadStringAsBytes(br) ==
    LET h == ReadStringHeader(br) IN
    IF h.err # "nil" THEN [val |-> <<>>, err |-> h.err, br |-> h.br]
    ELSE LET n == h.val[5] * 16777216 + h.val[6] * 65536 + h.val[7] * 256 + h.val[8]
             b == ReadN(h.br, n)
         IN  [val |-> b.buff, err |-> b.err, br |-> b.br]

\* is b a continuation byte within lo..hi
InRange(bs, i, lo, hi) == i <= Len(bs) /\ bs[i] >= lo /\ bs[i] <= hi

\* the width of the rune that utf8 decodes at position i of bs; an invalid
\* or cut encoding is a rune of width 1
RuneWidth(bs, i) ==
    LET b == bs[i] IN
    IF b < 128 THEN 1
    ELSE IF b >= 194 /\ b <= 223
    THEN (IF InRange(bs, i + 1, 128, 191) THEN 2 ELSE 1)
    ELSE IF b >= 224 /\ b <= 239
    THEN (IF /\ InRange(bs, i + 1, IF b = 224 THEN 160 ELSE 128, IF b = 237 THEN 159 ELSE 191)
             /\ InRange(bs, i + 2, 128, 191)
          THEN 3 ELSE 1)
    ELSE IF b >= 240 /\ b <= 244
    THEN (IF /\ InRange(bs, i + 1, IF b = 240 THEN 144 ELSE 128, IF b = 244 THEN 143 ELSE 191)
             /\ InRange(bs, i + 2, 128, 191)
             /\ InRange(bs, i + 3, 128, 191)
          THEN 4 ELSE 1)
    ELSE 1

\* a rune count that counts the bytes
RuneCount_Bytes(bs, i) == Len(bs) - (i - 1)

\* utf8.RuneCount of bs from position i on
RECURSIVE RuneCount(_, _)
RuneCount(bs, i) ==
    IF i > Len(bs) THEN 0 ELSE 1 + RuneCount(bs, i + RuneWidth(bs, i))

\* n blanks
Blanks(n) == [k \in 1..n |-> 32]

\* Varchar.read_value on the field [precision, fixlen, isnull, val]
VarcharReadValue(field, br) ==
    LET t == NextType(br) IN
    IF t.err # "nil" THEN [field |-> field, err |-> t.err, br |-> br]
    ELSE IF t.type = "NilType"
    THEN [field |-> [field EXCEPT !.isnull = TRUE, !.val = <<>>], err |-> "nil",
          br |-> ReadNil(br).br]
    ELSE LET r == ReadStringAsBytes(br) IN
         IF r.err # "nil" THEN [field |-> field, err |-> r.err, br |-> r.br]
         ELSE LET rune_count == RuneCount(r.val, 1)
                  padded == IF field.fixlen /\ rune_count < field.precision
                            THEN r.val \o Blanks(field.precision - rune_count)
                            ELSE r.val
              IN  [field |-> [field EXCEPT !.isnull = FALSE, !.val = padded],
                   err |-> "nil", br |-> r.br]

----------------------------------------------------------------------------
(* Date.read_value and Datetime.read_value.  The seconds are int64 values, *)
(* 8 bytes each, and their sums and products are computed byte by byte.    *)

SECONDS_PER_DAY == 86400

\* -62135596800
UNIX_SEC_LOWEST == <<255, 255, 255, 241, 136, 110, 9, 0>>

\* the carry into byte k of a + b
RECURSIVE AddCarry(_, _, _)
AddCarry(a, b, k) ==
    IF k = 8 THEN 0 ELSE (a[k + 1] + b[k + 1] + AddCarry(a, b, k + 1)) \div 256

\* a + b of two 64-bit values
Add64(a, b) == [k \in 1..8 |-> (a[k] + b[k] + AddCarry(a, b, k)) % 256]

\* the sum of column k of the product a * b, with the carry of column k + 1
RECURSIVE MulColumn(_, _, _)
MulColumn(a, b, k) ==
    LET Byte(j) == a[j] * b[8 + k - j]
        RECURSIVE Sum(_)
        Sum(j) == IF j > 8 THEN 0 ELSE Byte(j) + Sum(j + 1)
    IN  Sum(k) + (IF k = 8 THEN 0 ELSE MulColumn(a, b, k + 1) \div 256)

\* a * b of two 64-bit values
Mul64(a, b) == [k \in 1..8 |-> MulColumn(a, b, k) % 256]

\* 10^9
E9 == Word(1000000000)

\* a time.Unix that leaves nsec as it is
TimeUnix_NoCarry(sec, nsec) == [sec |-> sec, nsec |-> nsec, loc |-> "Local"]

\* time.Unix(sec, nsec) for nsec >= 0: the whole seconds of nsec go to sec
RECURSIVE TimeUnix(_, _)
TimeUnix(sec, nsec) ==
    IF ULe(E9, nsec)
    THEN TimeUnix(Add64(sec, Word(1)), Add64(nsec, Word(0 - 1000000000)))
    ELSE [sec |-> sec, nsec |-> nsec, loc |-> "Local"]

\* Time.UTC
UTC(t) == [t EXCEPT !.loc = "UTC"]

\* time.Time{}: January 1, year 1, 00:00:00 UTC
ZeroTime == [sec |-> UNIX_SEC_LOWEST, nsec |-> Word(0), loc |-> "UTC"]

\* Date.read_value on the field [isnull, val]
DateReadValue(field, br) ==
    LET t == NextType(br) IN
    IF t.err # "nil" THEN [field |-> field, err |-> t.err, br |-> br]
    ELSE IF t.type = "NilType"
    THEN [field |-> [isnull |-> TRUE, val |-> ZeroTime], err |-> "nil", br |-> ReadNil(br).br]
    ELSE LET delta_days == ReadUintN(br, 32) IN
         IF delta_days.err # "nil"
         THEN [field |-> field, err |-> delta_days.err, br |-> delta_days.br]
         ELSE LET unix_sec == Add64(UNIX_SEC_LOWEST,
                                    Mul64(delta_days.val, Word(SECONDS_PER_DAY)))
              IN  [field |-> [isnull |-> FALSE, val |-> UTC(TimeUnix(unix_sec, Word(0)))],
                   err |-> "nil", br |-> delta_days.br]

\* Datetime.read_value on the field [isnull, val]; an array that has not
\* three elements fails the assertion
DatetimeReadValue(field, br) ==
    LET t == NextType(br) IN
    IF t.err # "nil" THEN [field |-> field, err |-> t.err, br |-> br]
    ELSE IF t.type = "NilType"
    THEN [field |-> [isnull |-> TRUE, val |-> ZeroTime], err |-> "nil", br |-> ReadNil(br).br]
    ELSE LET sz == ReadArrayHeader(br)
             delta_days == ReadUintN(sz.br, 32)
             delta_seconds == ReadUintN(delta_days.br, 32)
             delta_ns == ReadUintN(delta_seconds.br, 32)
         IN  IF sz.err # "nil" THEN [field |-> field, err |-> sz.err, br |-> sz.br]
             ELSE IF sz.val # Word(3)
             THEN [field |-> field, err |-> "panic", br |-> sz.br]
             ELSE IF delta_days.err # "nil"
             THEN [field |-> field, err |-> delta_days.err, br |-> delta_days.br]
             ELSE IF delta_seconds.err # "nil"
             THEN [field |-> field, err |-> delta_seconds.err, br |-> delta_seconds.br]
             ELSE IF delta_ns.err # "nil"
             THEN [field |-> field, err |-> delta_ns.err, br |-> delta_ns.br]
             ELSE LET unix_sec == Add64(Add64(UNIX_SEC_LOWEST,
                                              Mul64(delta_days.val, Word(SECONDS_PER_DAY))),
                                        delta_seconds.val)
                  IN  [field |-> [isnull |-> FALSE, val |-> UTC(TimeUnix(unix_sec, delta_ns.val))],
                       err |-> "nil", br |-> delta_ns.br]

----------------------------------------------------------------------------
(* SQLpart.  A string is the sequence of its characters; a text fragment   *)
(* is a string or nil; positions count from 0 as in the code.              *)

NilError == [kind |-> "nil"]

NilFragment == [isnil |-> TRUE, s |-> <<>>]

StringFragment(str) == [isnil |-> FALSE, s |-> str]

\* text[a:b]
Substr(text, a, b) == SubSeq(text, a + 1, b)

UpperCase == <<"A", "B", "C", "D", "E", "F", "G", "H", "I", "J", "K", "L", "M",
               "N", "O", "P", "Q", "R", "S", "T", "U", "V", "W", "X", "Y", "Z">>

LowerCase == <<"a", "b", "c", "d", "e", "f", "g", "h", "i", "j", "k", "l", "m",
               "n", "o", "p", "q", "r", "s", "t", "u", "v", "w", "x", "y", "z">>

\* strings.ToLower
ToLower(str) ==
    [k \in 1..Len(str) |->
        IF \E j \in 1..26 : UpperCase[j] = str[k]
        THEN LowerCase[CHOOSE j \in 1..26 : UpperCase[j] = str[k]]
        ELSE str[k]]

IsSpace(c) == c \in {" ", "\t", "\n", "\r"}

\* strings.TrimSpace
RECURSIVE TrimSpace(_)
TrimSpace(str) ==
    IF str = <<>> THEN str
    ELSE IF IsSpace(str[1]) THEN TrimSpace(Tail(str))
    ELSE IF IsSpace(str[Len(str)]) THEN TrimSpace(SubSeq(str, 1, Len(str) - 1))
    ELSE str

\* placeholderMap[name], nil for a name that is not in the map
Targets(placeholderMap, name) ==
    IF name \in DOMAIN placeholderMap THEN placeholderMap[name] ELSE <<>>

\* NewSQLpart: the loop over the text from position i on
RECURSIVE ParseText(_, _, _, _, _, _, _, _, _)
ParseText(text, delimLeft, delimRight, i, state, textFragmentStart, placeholderStart, textFragments, placeholderMap) ==
    IF i >= Len(text)
    THEN IF state # "StateText" THEN [panic |-> TRUE]
         ELSE [panic |-> FALSE,
               textFragments |-> IF textFragmentStart # i
                                 THEN Append(textFragments,
                                             StringFragment(Substr(text, textFragmentStart, i)))
                                 ELSE textFragments,
               placeholderMap |-> placeholderMap]
    ELSE IF i + Len(delimLeft) <= Len(text) /\ Substr(text, i, i + Len(delimLeft)) = delimLeft
    THEN IF state # "StateText" THEN [panic |-> TRUE]
         ELSE ParseText(text, delimLeft, delimRight, i + Len(delimLeft), "StatePlaceholder",
                        0 - 1, i + Len(delimLeft),
                        IF textFragmentStart # i
                        THEN Append(textFragments,
                                    StringFragment(Substr(text, textFragmentStart, i)))
                        ELSE textFragments,
                        placeholderMap)
    ELSE IF i + Len(delimRight) <= Len(text) /\ Substr(text, i, i + Len(delimRight)) = delimRight
    THEN IF state # "StatePlaceholder" THEN [panic |-> TRUE]
         ELSE LET placeholderName == TrimSpace(ToLower(Substr(text, placeholderStart, i)))
                  pos == Len(textFragments)
              IN  IF Len(placeholderName) = 0 THEN [panic |-> TRUE]
                  ELSE ParseText(text, delimLeft, delimRight, i + Len(delimRight), "StateText",
                                 i + Len(delimRight), placeholderStart,
                                 Append(textFragments, NilFragment),
                                 (placeholderName :>
                                     Append(Targets(placeholderMap, placeholderName), pos))
                                 @@ placeholderMap)
    ELSE IF text[i + 1] = "\n" /\ state = "StatePlaceholder" THEN [panic |-> TRUE]
    ELSE ParseText(text, delimLeft, delimRight, i + 1, state, textFragmentStart,
                   placeholderStart, textFragments, placeholderMap)

\* NewSQLpart(text) with the default delimiters
NewSQLpart(text) ==
    LET r == ParseText(text, <<"{", "{">>, <<"}", "}">>, 0, "StateText", 0, 0 - 1, <<>>, <<>>)
    IN  IF r.panic THEN [panic |-> TRUE]
        ELSE [panic |-> FALSE, text |-> text, textFragments |-> r.textFragments,
              placeholderMap |-> r.placeholderMap, err |-> NilError]

\* a setParam that fills the first occurrence only
setParam_FirstOnly(part, param, val) ==
    LET name == ToLower(param) IN
    IF part.err # NilError THEN part
    ELSE IF name \notin DOMAIN part.placeholderMap
    THEN [part EXCEPT !.err = [kind |-> "not known", param |-> name]]
    ELSE [part EXCEPT !.textFragments[part.placeholderMap[name][1] + 1] = StringFragment(val)]

\* setParam
setParam(part, param, val) ==
    LET name == ToLower(param) IN
    IF part.err # NilError THEN part
    ELSE IF name \notin DOMAIN part.placeholderMap
    THEN [part EXCEPT !.err = [kind |-> "not known", param |-> name]]
    ELSE LET targets == part.placeholderMap[name] IN
         [part EXCEPT !.textFragments =
             [k \in 1..Len(part.textFragments) |->
                 IF \E j \in 1..Len(targets) : targets[j] = k - 1
                 THEN StringFragment(val)
                 ELSE part.textFragments[k]]]

BindNULL(part, param) ==
    IF part.err # NilError THEN part ELSE setParam(part, param, <<"N", "U", "L", "L">>)

\* strings.Replace(str, "'", "''", -1)
RECURSIVE DoubleQuotes(_)
DoubleQuotes(str) ==
    IF str = <<>> THEN <<>>
    ELSE (IF str[1] = "'" THEN <<"'", "'">> ELSE <<str[1]>>) \o DoubleQuotes(Tail(str))

BindStr(part, param, str) ==
    IF part.err # NilError THEN part
    ELSE setParam(part, param, <<"'">> \o DoubleQuotes(str) \o <<"'">>)

Digits == {"0", "1", "2", "3", "4", "5", "6", "7", "8", "9"}

\* BindNumstr: the loop that checks the characters from position i on
RECURSIVE ValidNumstr(_, _, _, _)
ValidNumstr(numstr, i, decimalDotPos, exponentSymbolPos) ==
    IF i >= Len(numstr) THEN TRUE
    ELSE LET r == numstr[i + 1] IN
         IF r \in Digits THEN ValidNumstr(numstr, i + 1, decimalDotPos, exponentSymbolPos)
         ELSE IF r \in {"e", "E"}
         THEN exponentSymbolPos = 0 - 1 /\ ValidNumstr(numstr, i + 1, decimalDotPos, i)
         ELSE IF r \in {"+", "-"}
         THEN (i = 0 \/ i = exponentSymbolPos + 1)
              /\ ValidNumstr(numstr, i + 1, decimalDotPos, exponentSymbolPos)
         ELSE IF r = "."
         THEN decimalDotPos = 0 - 1 /\ ValidNumstr(numstr, i + 1, i, exponentSymbolPos)
         ELSE FALSE

BindNumstr(part, param, numstr) ==
    IF part.err # NilError THEN part
    ELSE IF ~ValidNumstr(TrimSpace(numstr), 0, 0 - 1, 0 - 1)
    THEN [part EXCEPT !.err = [kind |-> "invalid number", param |-> param]]
    ELSE setParam(part, param, TrimSpace(numstr))

\* SQLpart.Text: the fragments from the k-th on, appended to buff
RECURSIVE TextLoop(_, _, _)
TextLoop(part, k, buff) ==
    IF k > Len(part.textFragments) THEN [s |-> buff, err |-> NilError, panic |-> FALSE]
    ELSE IF part.textFragments[k].isnil
    THEN LET names == {n \in DOMAIN part.placeholderMap :
                          \E j \in 1..Len(part.placeholderMap[n]) :
                              part.placeholderMap[n][j] = k - 1}
         IN  IF names = {} THEN [s |-> <<>>, err |-> NilError, panic |-> TRUE]
             ELSE [s |-> <<>>, panic |-> FALSE,
                   err |-> [kind |-> "not filled", param |-> CHOOSE n \in names : TRUE]]
    ELSE TextLoop(part, k + 1, buff \o part.textFragments[k].s)

\* SQLpart.Text
Text(part) ==
    IF part.err # NilError THEN [s |-> <<>>, err |-> part.err, panic |-> FALSE]
    ELSE TextLoop(part, 1, <<>>)

----------------------------------------------------------------------------
(* Response messages.  A message is the tag and its payload; ok tells how  *)
(* far the payload can be decoded ("ok", "bad": the first read fails,      *)
(* "badlayout": the column names decode and the layout does not).  An      *)
(* Error carries its state in n, its line and position in types and its    *)
(* text in names.                                                          *)

Msg(tag, ok, names, types, vals, n) ==
    [tag |-> tag, ok |-> ok, names |-> names, types |-> types, vals |-> vals, n |-> n]

Cell(k, v) == [k |-> k, v |-> v]

\* Read_Error_info: the Error_info decoded from the Error message m
ReadErrorInfo(m) ==
    [state |-> m.n, line_no |-> m.types[1], line_pos |-> m.types[2], text |-> m.names[1]]

----------------------------------------------------------------------------
(* Batch *)

\* op, given and late are history: the call that made the batch, whether
\* that call has returned it, and whether Next was called on it after it had
\* reached batch end
NewBatch ==
    [op |-> "none", given |-> FALSE, late |-> FALSE,
     text |-> 0, status |-> 0, recordsetCount |-> 0,
     colnameList |-> NilSlice, colnameMap |-> NilMap, record |-> NilSlice,
     recordCount |-> 0, execRecordCount |-> 0, err |-> NoErr, rc |-> 0]

\* new_field: every new field starts null
NewField(dtype) == [dtype |-> dtype, isnull |-> TRUE, val |-> Cell("nil", 0)]

\* Create_row
CreateRow(types) == [i \in 1..Len(types) |-> NewField(types[i])]

\* the colnameMap loop of step
RECURSIVE BuildColnameMap(_, _, _)
BuildColnameMap(names, i, m) ==
    IF i > Len(names) THEN m
    ELSE LET name == names[i] IN
         IF name = "" THEN BuildColnameMap(names, i + 1, m)
         ELSE IF name \in DOMAIN m
         THEN BuildColnameMap(names, i + 1, [m EXCEPT ![name] = i - 1])
         ELSE BuildColnameMap(names, i + 1, [x \in (DOMAIN m) \ {name} |-> m[x]])

\* read_value of Int and Varchar: the field after the cell c, or "bad"
FieldAccepts(f, c) ==
    \/ c.k = "nil"
    \/ f.dtype = DTYPE_INT /\ c.k = "int"
    \/ f.dtype = DTYPE_VARCHAR /\ c.k = "str"

ReadValue(f, c) ==
    IF c.k = "nil" THEN [f EXCEPT !.isnull = TRUE, !.val = Cell("nil", 0)]
    ELSE [f EXCEPT !.isnull = FALSE, !.val = c]

\* Fill_row_with_values past the array header: fields are filled in order
\* until one cannot be decoded
RECURSIVE FillRow(_, _, _)
FillRow(row, vals, i) ==
    IF i > Len(row) THEN [row |-> row, err |-> NoErr]
    ELSE IF ~FieldAccepts(row[i], vals[i]) THEN [row |-> row, err |-> ErrProtocol]
    ELSE FillRow([row EXCEPT ![i] = ReadValue(row[i], vals[i])], vals, i + 1)

----------------------------------------------------------------------------
(* Batch.step: the effect of one iteration of the response loop on the     *)
(* batch b for the message m.  out is "cont" (loop again), "true" or       *)
(* "false" (step returns it); clean tells that conn.isDirty is cleared;    *)
(* crash names a panic.                                                    *)

StepRes(b, out, clean, crash) == [b |-> b, out |-> out, clean |-> clean, crash |-> crash]
\* a failure that marks the connection as clean
StepFail_Cleans(b, e) == StepRes([b EXCEPT !.err = e], "false", TRUE, "none")

\* b.err = err; return false
StepFail(b, e) == StepRes([b EXCEPT !.err = e], "false", FALSE, "none")

\* a RecordLayout case that keeps the row count of the recordset before
OnRecordLayout_KeepsCount(b, m, option) ==
    IF m.ok = "bad" THEN StepFail(b, ErrProtocol)
    ELSE LET b1 == [b EXCEPT !.colnameList = Slice(m.names),
                             !.colnameMap = Map(BuildColnameMap(m.names, 1, EmptyMap))]
         IN  IF m.ok = "badlayout" THEN StepFail(b1, ErrUnknownDatatype)
             ELSE StepRes([b1 EXCEPT !.record = Slice(CreateRow(m.types)),
                                     !.recordsetCount = @ + 1,
                                     !.status = sTATUS_RECORD_LAYOUT_AVAILABLE],
                          IF option = sTEP_NEXT_RECORD THEN "false" ELSE "cont",
                          FALSE, "none")

\* a RecordLayout case that never returns from step
OnRecordLayout_NoReturn(b, m, option) ==
    IF m.ok = "bad" THEN StepFail(b, ErrProtocol)
    ELSE LET b1 == [b EXCEPT !.colnameList = Slice(m.names),
                             !.colnameMap = Map(BuildColnameMap(m.names, 1, EmptyMap))]
         IN  IF m.ok = "badlayout" THEN StepFail(b1, ErrUnknownDatatype)
             ELSE StepRes([b1 EXCEPT !.record = Slice(CreateRow(m.types)),
                                     !.recordCount = 0,
                                     !.recordsetCount = @ + 1,
                                     !.status = sTATUS_RECORD_LAYOUT_AVAILABLE],
                          "cont", FALSE, "none")

OnRecordLayout(b, m, option) ==
    IF m.ok = "bad" THEN StepFail(b, ErrProtocol)
    ELSE LET b1 == [b EXCEPT !.colnameList = Slice(m.names),
                             !.colnameMap = Map(BuildColnameMap(m.names, 1, EmptyMap))]
         IN  IF m.ok = "badlayout" THEN StepFail(b1, ErrUnknownDatatype)
             ELSE StepRes([b1 EXCEPT !.record = Slice(CreateRow(m.types)),
                                     !.recordCount = 0,
                                     !.recordsetCount = @ + 1,
                                     !.status = sTATUS_RECORD_LAYOUT_AVAILABLE],
                          IF option = sTEP_NEXT_RECORD THEN "false" ELSE "cont",
                          FALSE, "none")

OnRecord(b, m, option) ==
    IF m.ok = "bad" THEN StepFail(b, ErrProtocol)
    ELSE IF Len(b.record.v) # Len(m.vals) THEN StepRes(b, "false", FALSE, "assertion failed")
    ELSE LET f == FillRow(b.record.v, m.vals, 1)
             b1 == [b EXCEPT !.record = IF b.record.nil THEN @ ELSE Slice(f.row)]
         IN  IF f.err # NoErr THEN StepFail(b1, f.err)
             ELSE StepRes([b1 EXCEPT !.recordCount = @ + 1,
                                     !.status = sTATUS_RECORD_AVAILABLE],
                          IF option = sTEP_NEXT_RECORD THEN "true" ELSE "cont",
                          FALSE, "none")

\* a RecordFinished that takes the server's count without comparing it
OnRecordFinished_NoCompare(b, m, option) ==
    IF m.ok = "bad" THEN StepFail(b, ErrProtocol)
    ELSE StepRes([b EXCEPT !.colnameList = NilSlice,
                           !.colnameMap = NilMap,
                           !.record = NilSlice,
                           !.recordCount = m.n,
                           !.status = sTATUS_RECORD_END],
                 "cont", FALSE, "none")

\* a RecordFinished case that keeps the row buffer
OnRecordFinished_KeepsRecord(b, m, option) ==
    IF m.ok = "bad" THEN StepFail(b, ErrProtocol)
    ELSE IF m.n # b.recordCount THEN StepFail(b, ErrMismatch)
    ELSE StepRes([b EXCEPT !.colnameList = NilSlice,
                           !.colnameMap = NilMap,
                           !.recordCount = m.n,
                           !.status = sTATUS_RECORD_END],
                 "cont", FALSE, "none")

OnRecordFinished(b, m, option) ==
    IF m.ok = "bad" THEN StepFail(b, ErrProtocol)
    ELSE IF m.n # b.recordCount THEN StepFail(b, ErrMismatch)
    ELSE StepRes([b EXCEPT !.colnameList = NilSlice,
                           !.colnameMap = NilMap,
                           !.record = NilSlice,
                           !.recordCount = m.n,
                           !.status = sTATUS_RECORD_END],
                 "cont", FALSE, "none")

\* an ExecutionFinished case that drops the count
OnExecutionFinished_DropsCount(b, m, option) ==
    IF m.ok = "bad" THEN StepFail(b, ErrProtocol)
    ELSE StepRes(b, "cont", FALSE, "none")

OnExecutionFinished(b, m, option) ==
    IF m.ok = "bad" THEN StepFail(b, ErrProtocol)
    ELSE StepRes([b EXCEPT !.execRecordCount = m.n], "cont", FALSE, "none")

\* a Print case that makes step return
OnPrint_Returns(b, m, option) ==
    IF m.ok = "bad" THEN StepFail(b, ErrProtocol)
    ELSE StepRes(b, "false", FALSE, "none")

OnPrint(b, m, option) ==
    IF m.ok = "bad" THEN StepFail(b, ErrProtocol)
    ELSE StepRes(b, "cont", FALSE, "none")

OnMessage(b, m, option) ==
    IF m.ok = "bad" THEN StepFail(b, ErrProtocol)
    ELSE StepRes(b, "cont", FALSE, "none")

\* an Error case that returns from step
OnError_Returns(b, m, option) ==
    IF m.ok = "bad" THEN StepFail(b, ErrProtocol)
    ELSE StepRes([b EXCEPT !.err = newBatchError(ReadErrorInfo(m))], "false", FALSE, "none")

OnError(b, m, option) ==
    IF m.ok = "bad" THEN StepFail(b, ErrProtocol)
    ELSE StepRes([b EXCEPT !.err = newBatchError(ReadErrorInfo(m))], "cont", FALSE, "none")

\* a BatchEnd that leaves the connection dirty
OnBatchEnd_KeepsDirty(b, m, option) ==
    IF m.ok = "bad" THEN StepFail(b, ErrProtocol)
    ELSE StepRes([b EXCEPT !.rc = m.n, !.status = sTATUS_BATCH_END],
                 "false", FALSE, "none")

OnBatchEnd(b, m, option) ==
    IF m.ok = "bad" THEN StepFail(b, ErrProtocol)
    ELSE StepRes([b EXCEPT !.rc = m.n, !.status = sTATUS_BATCH_END],
                 "false", TRUE, "none")

OnOtherTag(b, m, option) == StepRes(b, "false", FALSE, "impossible")

StepMsg(b, m, option) ==
    IF m.tag > MaxUint8 THEN StepFail(b, ErrProtocol)
    ELSE IF m.tag = RESTYP_RECORD_LAYOUT THEN OnRecordLayout(b, m, option)
    ELSE IF m.tag = RESTYP_RECORD THEN OnRecord(b, m, option)
    ELSE IF m.tag = RESTYP_RECORD_FINISHED THEN OnRecordFinished(b, m, option)
    ELSE IF m.tag = RESTYP_EXECUTION_FINISHED THEN OnExecutionFinished(b, m, option)
    ELSE IF m.tag = RESTYP_PRINT THEN OnPrint(b, m, option)
    ELSE IF m.tag = RESTYP_MESSAGE THEN OnMessage(b, m, option)
    ELSE IF m.tag = RESTYP_ERROR THEN OnError(b, m, option)
    ELSE IF m.tag = RESTYP_BATCH_END THEN OnBatchEnd(b, m, option)
    ELSE OnOtherTag(b, m, option)

----------------------------------------------------------------------------
(* The typed getters of a Batch, on the field f of the column.  A value is *)
(* a cell: "int" an integer of at most 32 bits, "int64" the 8 bytes of an  *)
(* int64, "str", "bin", "dec", "float" and "time" a text, a byte string, a *)
(* decimal text, a float and an instant, each named by a number (the text  *)
(* 1 is "1", the text 0 is "0").  The result is the value, isnull, and the *)
(* panic if there is one.                                                  *)

GetRes(val, isnull, crash) == [val |-> val, isnull |-> isnull, crash |-> crash]

\* strconv.ParseBool on the text named v
ParseBool(v) == [res |-> (v = 1), err |-> (v \notin {0, 1})]

\* int64(field.Val)
Int64Of(f) == IF f.dtype = DTYPE_BIGINT THEN f.val.v ELSE Word(f.val.v)

SmallIntTypes == {DTYPE_BIT, DTYPE_TINYINT, DTYPE_SMALLINT, DTYPE_INT}

ColBool(f) ==
    IF f.isnull THEN GetRes(FALSE, TRUE, "none")
    ELSE IF f.dtype = DTYPE_VARCHAR
    THEN (IF ParseBool(f.val.v).err THEN GetRes(FALSE, FALSE, "none")
          ELSE GetRes(ParseBool(f.val.v).res, FALSE, "none"))
    ELSE IF f.dtype \in SmallIntTypes \cup {DTYPE_FLOAT} THEN GetRes(f.val.v # 0, FALSE, "none")
    ELSE IF f.dtype = DTYPE_BIGINT THEN GetRes(f.val.v # Word(0), FALSE, "none")
    ELSE GetRes(FALSE, FALSE, "record field cannot be converted to bool")

ColBinary(f) ==
    IF f.isnull THEN GetRes(Cell("nil", 0), TRUE, "none")
    ELSE IF f.dtype = DTYPE_VARBINARY THEN GetRes(f.val, FALSE, "none")
    ELSE GetRes(Cell("nil", 0), FALSE, "record field is not a binary datatype")

\* string(Val) for Varchar, Money and Numeric, field.String() for the others
ColString(f) ==
    IF f.isnull THEN GetRes(Cell("string", ""), TRUE, "none")
    ELSE GetRes(Cell("string", f.val), FALSE, "none")

ColInt64(f) ==
    IF f.isnull THEN GetRes(Word(0), TRUE, "none")
    ELSE IF f.dtype \in SmallIntTypes \cup {DTYPE_BIGINT} THEN GetRes(Int64Of(f), FALSE, "none")
    ELSE GetRes(Word(0), FALSE, "record field is not an integer datatype")

\* int(val64), with int of 64 bits
ColInt(f) == ColInt64(f)

ColNumeric(f) ==
    IF f.isnull THEN GetRes(Cell("string", ""), TRUE, "none")
    ELSE IF f.dtype \in SmallIntTypes \cup {DTYPE_BIGINT, DTYPE_MONEY, DTYPE_NUMERIC}
    THEN GetRes(Cell("string", f.val), FALSE, "none")
    ELSE GetRes(Cell("string", ""), FALSE,
                "record field is not an integer, money or numeric datatype")

ColFloat64(f) ==
    IF f.isnull THEN GetRes(Cell("float", 0), TRUE, "none")
    ELSE IF f.dtype = DTYPE_FLOAT THEN GetRes(f.val, FALSE, "none")
    ELSE GetRes(Cell("float", 0), FALSE, "record field is not a float datatype")

ColDatetimeUTC(f) ==
    IF f.isnull THEN GetRes(Cell("time", 0), TRUE, "none")
    ELSE IF f.dtype \in {DTYPE_DATE, DTYPE_TIME, DTYPE_DATETIME} THEN GetRes(f.val, FALSE, "none")
    ELSE GetRes(Cell("time", 0), FALSE,
                "record field is not a date, time or datetime datatype")

\* LocalizeTime: the same wall clock, in the local zone
LocalizeTime(t) == Cell("local", t.v)

ColDatetime(f) ==
    IF f.isnull THEN GetRes(Cell("time", 0), TRUE, "none")
    ELSE IF f.dtype = DTYPE_TIME THEN GetRes(f.val, FALSE, "none")
    ELSE LET u == ColDatetimeUTC(f) IN
         IF u.crash # "none" THEN u
         ELSE GetRes(LocalizeTime(u.val), u.isnull, "none")

Getters == {"ColBool", "ColBinary", "ColString", "ColInt64", "ColInt", "ColNumeric",
            "ColFloat64", "ColDatetimeUTC", "ColDatetime"}

\* the getter named g on the field f
Getter(g, f) ==
    CASE g = "ColBool" -> ColBool(f)
      [] g = "ColBinary" -> ColBinary(f)
      [] g = "ColString" -> ColString(f)
      [] g = "ColInt64" -> ColInt64(f)
      [] g = "ColInt" -> ColInt(f)
      [] g = "ColNumeric" -> ColNumeric(f)
      [] g = "ColFloat64" -> ColFloat64(f)
      [] g = "ColDatetimeUTC" -> ColDatetimeUTC(f)
      [] g = "ColDatetime" -> ColDatetime(f)

\* b.record[i] of a getter called with the index i - 1: the field, or the
\* panic of an index out of range
ColField(b, i) ==
    IF i < 1 \/ i > Len(b.record.v) THEN [crash |-> "index out of range"]
    ELSE [crash |-> "none", f |-> b.record.v[i]]

\* ColCount
ColCount(b) == Len(b.record.v)

\* ColIsNull, and a getter, on the column of index i - 1
ColIsNull(b, i) ==
    LET c == ColField(b, i) IN
    IF c.crash # "none" THEN GetRes(FALSE, FALSE, c.crash)
    ELSE GetRes(c.f.isnull, c.f.isnull, "none")

ColGet(g, b, i) ==
    LET c == ColField(b, i) IN
    IF c.crash # "none" THEN GetRes(Cell("nil", 0), FALSE, c.crash)
    ELSE Getter(g, c.f)

----------------------------------------------------------------------------
(* Batch.Scan.  A destination is named by its kind; dest holds the values  *)
(* the destinations have, a cell each.                                     *)

IntKinds == {"int8", "int16", "int32", "int64", "int",
             "uint8", "uint16", "uint32", "uint64", "uint"}

\* the kinds of destination Scan has a case for
ScanKinds == IntKinds \cup {"bool", "bytes", "string", "float64", "time"}

\* the getter Scan calls for a destination
ScanGetter(kind) ==
    IF kind = "bool" THEN "ColBool"
    ELSE IF kind = "bytes" THEN "ColBinary"
    ELSE IF kind = "string" THEN "ColString"
    ELSE IF kind = "float64" THEN "ColFloat64"
    ELSE IF kind = "time" THEN "ColDatetime"
    ELSE IF kind = "int" THEN "ColInt"
    ELSE "ColInt64"

\* a range check of Scan that lets the negative values into the unsigned
\* destinations
ScanInRange_NoSign(kind, val) ==
    IF kind = "int8" THEN SLe(MinInt8, val) /\ SLe(val, MaxInt8)
    ELSE IF kind = "int16" THEN SLe(MinInt16, val) /\ SLe(val, MaxInt16)
    ELSE IF kind = "int32" THEN SLe(MinInt32, val) /\ SLe(val, MaxInt32)
    ELSE IF kind = "uint8" THEN ULe(val, Word(MaxUint8))
    ELSE IF kind = "uint16" THEN ULe(val, MaxUint16)
    ELSE IF kind = "uint32" THEN ULe(val, MaxUint32)
    ELSE TRUE

\* the range check of Scan for a destination; val is an int64
ScanInRange(kind, val) ==
    IF kind = "int8" THEN SLe(MinInt8, val) /\ SLe(val, MaxInt8)
    ELSE IF kind = "int16" THEN SLe(MinInt16, val) /\ SLe(val, MaxInt16)
    ELSE IF kind = "int32" THEN SLe(MinInt32, val) /\ SLe(val, MaxInt32)
    ELSE IF kind = "uint8" THEN SLe(Word(0), val) /\ SLe(val, Word(MaxUint8))
    ELSE IF kind = "uint16" THEN SLe(Word(0), val) /\ SLe(val, MaxUint16)
    ELSE IF kind = "uint32" THEN SLe(Word(0), val) /\ SLe(val, MaxUint32)
    ELSE IF kind \in {"uint64", "uint"} THEN SLe(Word(0), val)
    ELSE TRUE

\* the loop of Scan over the destinations, from destination i on
RECURSIVE ScanLoop(_, _, _, _)
ScanLoop(row, kinds, dest, i) ==
    IF i > Len(kinds) THEN [dest |-> dest, err |-> NoErr, crash |-> "none"]
    ELSE IF kinds[i] \in ScanKinds
    THEN LET c == Getter(ScanGetter(kinds[i]), row[i]) IN
         IF c.crash # "none" THEN [dest |-> dest, err |-> NoErr, crash |-> c.crash]
         ELSE IF kinds[i] \in IntKinds /\ ~ScanInRange(kinds[i], c.val)
         THEN [dest |-> dest, err |-> ErrScanOverflow, crash |-> "none"]
         ELSE ScanLoop(row, kinds, [dest EXCEPT ![i] = Cell(kinds[i], c.val)], i + 1)
    ELSE [dest |-> dest, err |-> ErrScanKind, crash |-> "none"]

\* a Scan that tests the status before the error
ScanResult_StatusFirst(b, kinds, dest) ==
    IF b.status # sTATUS_RECORD_AVAILABLE
    THEN [dest |-> dest, err |-> ErrScanNoRecord, crash |-> "none"]
    ELSE IF b.err # NoErr THEN [dest |-> dest, err |-> b.err, crash |-> "none"]
    ELSE IF Len(kinds) # ColCount(b)
    THEN [dest |-> dest, err |-> ErrScanCount, crash |-> "none"]
    ELSE ScanLoop(b.record.v, kinds, dest, 1)

ScanResult(b, kinds, dest) ==
    IF b.err # NoErr THEN [dest |-> dest, err |-> b.err, crash |-> "none"]
    ELSE IF b.status # sTATUS_RECORD_AVAILABLE
    THEN [dest |-> dest, err |-> ErrScanNoRecord, crash |-> "none"]
    ELSE IF Len(kinds) # ColCount(b)
    THEN [dest |-> dest, err |-> ErrScanCount, crash |-> "none"]
    ELSE ScanLoop(b.record.v, kinds, dest, 1)

\* the destinations before a call of Scan
OldDest(kinds) == [i \in 1..Len(kinds) |-> Cell("old", 0)]

----------------------------------------------------------------------------
(* State *)

VARIABLES
    isDirty,        \* Connection.isDirty
    connClosed,     \* the socket was closed by Session.Close
    peerClosed,     \* the server closed the connection
    ticker,         \* Session.ticker: [stopped, pending, fired]
    doneClosed,     \* Session.ticker_done is closed
    mwLock,         \* Session.mw_lock: "free" or the thread that holds it
    mw,             \* Session.mw: [buf, berr, doomed]
    wire,           \* the fragments the socket has taken, in order
    net,            \* response messages sent and not yet read from the socket
    rbuf,           \* response messages in the bufio.Reader of Session.mr
    srv,            \* the server: what it is answering
    srvlog,         \* per batch: what the server has sent for it
    nb,             \* Batch objects created
    batch,          \* the Batch objects
    pc,             \* per user thread: where it is
    lv,             \* per user thread: the call it is in
    ret,            \* per user thread: what its last call returned, and for
                    \* Scan the destinations after it
    kpc,            \* the keepalive goroutine: where it is
    cpc,            \* per closing thread: where it is in Session.Close
    closeCalls,     \* calls of Session.Close begun
    closeReturned,  \* calls of Session.Close that have returned
    crash,          \* "none", or the panic that ended the process
    codec           \* a byte buffer, the msgpack Reader on it, and what was
                    \* appended to the one and read from the other

connVars == <<connClosed, peerClosed, ticker, doneClosed>>
writeVars == <<mwLock, mw, wire>>
readVars == <<net, rbuf, srv, srvlog>>
batchVars == <<nb, batch, isDirty>>
userVars == <<pc, lv, ret>>
closeVars == <<cpc, closeCalls, closeReturned>>
sessionVars == <<connVars, writeVars, readVars, batchVars, userVars, closeVars, kpc, crash>>
vars == <<sessionVars, codec>>

Batches == 1..MaxBatches

NoCall == [op |-> "none", b |-> 0, option |-> sTEP_NEXT_RECORD, len |-> 0]
NoRet == [op |-> "none", b |-> 0, ok |-> FALSE, err |-> NoErr, dest |-> <<>>]
Ret(op, b, ok, err) == [op |-> op, b |-> b, ok |-> ok, err |-> err, dest |-> <<>>]

NewSrv == [answered |-> 0, active |-> FALSE, rows |-> 0, sets |-> 0,
           afterErr |-> FALSE, types |-> <<>>]
\* errs and execs hold the last Error record and the last ExecutionFinished
\* count sent, if any
NewSrvLog ==
    [valid |-> TRUE, ended |-> FALSE, rc |-> 0, sizes |-> <<>>, errs |-> <<>>,
     execs |-> <<>>]

\* no buffer
NoCodec ==
    [phase |-> "idle", kind |-> "none", v |-> Word(0), w |-> Word(0), bbb |-> <<>>,
     br |-> <<>>, n |-> 0, r1 |-> ReadRes(Word(0), "nil", <<>>),
     r2 |-> ReadRes(Word(0), "nil", <<>>)]

\* the state after NewConnection has returned a connection
Init ==
    /\ isDirty = FALSE
    /\ connClosed = FALSE
    /\ peerClosed = FALSE
    /\ ticker = [stopped |-> FALSE, pending |-> FALSE, fired |-> 0]
    /\ doneClosed = FALSE
    /\ mwLock = "free"
    /\ mw = [buf |-> <<>>, berr |-> NoErr, doomed |-> NoErr]
    /\ wire = <<>>
    /\ net = <<>>
    /\ rbuf = <<>>
    /\ srv = NewSrv
    /\ srvlog = [b \in Batches |-> NewSrvLog]
    /\ nb = 0
    /\ batch = [b \in Batches |-> NewBatch]
    /\ pc = [t \in Users |-> "idle"]
    /\ lv = [t \in Users |-> NoCall]
    /\ ret = [t \in Users |-> NoRet]
    /\ kpc = "select"
    /\ cpc = [c \in Closers |-> "idle"]
    /\ closeCalls = 0
    /\ closeReturned = 0
    /\ crash = "none"
    /\ codec = NoCodec

Running == crash = "none"

----------------------------------------------------------------------------
(* Connection.Query and Connection.Execute *)

\* a Query or Execute that does not test isDirty
QueryBegin_IgnoresDirty(t, op, len, limit) ==
    /\ Running
    /\ pc[t] = "idle"
    /\ nb < limit
    /\ pc' = [pc EXCEPT ![t] = "setdirty"]
    /\ lv' = [lv EXCEPT ![t] = [op |-> op, b |-> 0,
                 option |-> IF op = "Query" THEN sTEP_NEXT_RECORD ELSE sTEP_FINALIZE,
                 len |-> len]]
    /\ ret' = [ret EXCEPT ![t] = NoRet]
    /\ UNCHANGED <<codec, connVars, writeVars, readVars, batchVars, closeVars, kpc, crash>>

\* the isDirty test
QueryBegin(t, op, len, limit) ==
    /\ Running
    /\ pc[t] = "idle"
    /\ IF isDirty
       THEN /\ ret' = [ret EXCEPT ![t] = Ret(op, 0, FALSE, ErrDirty)]
            /\ UNCHANGED <<pc, lv>>
       ELSE /\ nb < limit
            /\ pc' = [pc EXCEPT ![t] = "setdirty"]
            /\ lv' = [lv EXCEPT ![t] = [op |-> op, b |-> 0,
                         option |-> IF op = "Query" THEN sTEP_NEXT_RECORD ELSE sTEP_FINALIZE,
                         len |-> len]]
            /\ ret' = [ret EXCEPT ![t] = NoRet]
    /\ UNCHANGED <<codec, connVars, writeVars, readVars, batchVars, closeVars, kpc, crash>>

\* b.conn.isDirty = true; b.text = text
SetDirty(t) ==
    /\ Running
    /\ pc[t] = "setdirty"
    /\ nb < MaxBatches
    /\ isDirty' = TRUE
    /\ nb' = nb + 1
    /\ batch' = [batch EXCEPT ![nb + 1] = [NewBatch EXCEPT !.op = lv[t].op, !.text = lv[t].len]]
    /\ lv' = [lv EXCEPT ![t].b = nb + 1]
    /\ pc' = [pc EXCEPT ![t] = "send_lock"]
    /\ UNCHANGED <<codec, connVars, writeVars, readVars, ret, closeVars, kpc, crash>>

(* Session.Send_batch *)

\* a Send_batch that does not take the mutex
SendLock_NoLock(t) ==
    /\ Running
    /\ pc[t] = "send_lock"
    /\ pc' = [pc EXCEPT ![t] = "send_tag"]
    /\ UNCHANGED <<codec, connVars, writeVars, readVars, batchVars, lv, ret, closeVars, kpc, crash>>

SendLock(t) ==
    /\ Running
    /\ pc[t] = "send_lock"
    /\ mwLock = "free"
    /\ mwLock' = t
    /\ pc' = [pc EXCEPT ![t] = "send_tag"]
    /\ UNCHANGED <<codec, connVars, mw, wire, readVars, batchVars, lv, ret, closeVars, kpc, crash>>

SendTag(t) ==
    /\ Running
    /\ pc[t] = "send_tag"
    /\ LET r == WriterWrite(mw, Frag(lv[t].b, "tag", 1), ConnWriteErr(connClosed, peerClosed))
       IN  /\ mw' = r.mw
           /\ wire' = wire \o r.out
    /\ pc' = [pc EXCEPT ![t] = "send_text"]
    /\ UNCHANGED <<codec, connVars, mwLock, readVars, batchVars, lv, ret, closeVars, kpc, crash>>

SendText(t) ==
    /\ Running
    /\ pc[t] = "send_text"
    /\ LET r == WriterWrite(mw, Frag(lv[t].b, "text", StringSize(lv[t].len)),
                            ConnWriteErr(connClosed, peerClosed))
       IN  /\ mw' = r.mw
           /\ wire' = wire \o r.out
    /\ pc' = [pc EXCEPT ![t] = "send_flush"]
    /\ UNCHANGED <<codec, connVars, mwLock, readVars, batchVars, lv, ret, closeVars, kpc, crash>>

\* a Send_batch that returns nil whatever the flush returned
SendFlush_IgnoresError(t) ==
    /\ Running
    /\ pc[t] = "send_flush"
    /\ LET r == WriterFlush(mw, ConnWriteErr(connClosed, peerClosed))
       IN  /\ mw' = r.mw
           /\ wire' = wire \o r.out
    /\ batch' = [batch EXCEPT ![lv[t].b].status = sTATUS_BATCH_SENT]
    /\ pc' = [pc EXCEPT ![t] = "step"]
    /\ mwLock' = "free"
    /\ UNCHANGED <<codec, connVars, readVars, nb, isDirty, lv, ret, closeVars, kpc, crash>>

\* the flush, the deferred unlock and the return to Query or Execute
SendFlush(t) ==
    /\ Running
    /\ pc[t] = "send_flush"
    /\ LET r == WriterFlush(mw, ConnWriteErr(connClosed, peerClosed))
           b == lv[t].b
           e == SendBatchErr(r.err, lv[t].len)
       IN  /\ mw' = r.mw
           /\ wire' = wire \o r.out
           /\ IF r.err # NoErr
              THEN /\ batch' = [batch EXCEPT ![b].err = e]
                   /\ ret' = [ret EXCEPT ![t] = Ret(lv[t].op, 0, FALSE, e)]
                   /\ pc' = [pc EXCEPT ![t] = "idle"]
              ELSE /\ batch' = [batch EXCEPT ![b].status = sTATUS_BATCH_SENT]
                   /\ pc' = [pc EXCEPT ![t] = "step"]
                   /\ ret' = ret
    /\ mwLock' = "free"
    /\ UNCHANGED <<codec, connVars, readVars, nb, isDirty, lv, closeVars, kpc, crash>>

----------------------------------------------------------------------------
(* Batch.step, Batch.Next, Batch.Finalize *)

\* what the call op on batch b returns when step has returned out
CallReturn(op, b, out) ==
    IF op = "Query" THEN Ret(op, b.id, FALSE, NoErr)
    ELSE IF op = "Execute" THEN Ret(op, b.id, FALSE, b.rec.err)
    ELSE IF op = "Next" THEN Ret(op, b.id, out = "true", NoErr)
    ELSE Ret(op, b.id, FALSE, b.rec.err)

\* Session.Read_response_type: a message can be read, or the read fails
ReadReady == rbuf # <<>> \/ connClosed \/ net # <<>> \/ peerClosed
\* a read that a closed socket does not fail
ReadErr_IgnoresClose ==
    IF rbuf # <<>> THEN NoErr
    ELSE IF net # <<>> THEN NoErr
    ELSE ErrEOF

ReadErr ==
    IF rbuf # <<>> THEN NoErr
    ELSE IF connClosed THEN ErrClosed
    ELSE IF net # <<>> THEN NoErr
    ELSE ErrEOF
ReadMsg == IF rbuf # <<>> THEN Head(rbuf) ELSE Head(net)

\* one iteration of the loop of step
StepRead(t) ==
    /\ Running
    /\ pc[t] = "step"
    /\ ReadReady
    /\ LET b == lv[t].b
           op == lv[t].op
       IN  IF ReadErr # NoErr
           THEN LET nbt == [batch[b] EXCEPT !.err = ReadErr,
                                            !.given = @ \/ op \in {"Query", "Execute"}]
                IN  /\ batch' = [batch EXCEPT ![b] = nbt]
                    /\ ret' = [ret EXCEPT ![t] = CallReturn(op, [id |-> b, rec |-> nbt], "false")]
                    /\ pc' = [pc EXCEPT ![t] = "idle"]
                    /\ UNCHANGED <<net, rbuf, isDirty, crash>>
           ELSE LET r == StepMsg(batch[b], ReadMsg, lv[t].option)
                    back == r.out # "cont" /\ r.crash = "none"
                    nbt == [r.b EXCEPT !.given = @ \/ (back /\ op \in {"Query", "Execute"})]
                IN  /\ IF rbuf # <<>>
                       THEN rbuf' = Tail(rbuf) /\ net' = net
                       ELSE rbuf' = Tail(net) /\ net' = <<>>
                    /\ batch' = [batch EXCEPT ![b] = nbt]
                    /\ isDirty' = IF r.clean THEN FALSE ELSE isDirty
                    /\ crash' = r.crash
                    /\ IF back
                       THEN /\ ret' = [ret EXCEPT ![t] = CallReturn(op, [id |-> b, rec |-> nbt], r.out)]
                            /\ pc' = [pc EXCEPT ![t] = "idle"]
                       ELSE UNCHANGED <<ret, pc>>
    /\ UNCHANGED <<codec, connVars, writeVars, srv, srvlog, nb, lv, closeVars, kpc>>

\* the batches the user holds: those Query or Execute returned
Given == {b \in Batches : batch[b].given}

NextCall(t, b) ==
    /\ Running
    /\ pc[t] = "idle"
    /\ b \in Given
    /\ IF batch[b].err # NoErr
       THEN /\ ret' = [ret EXCEPT ![t] = Ret("Next", b, FALSE, NoErr)]
            /\ UNCHANGED <<pc, lv>>
            /\ batch' = batch
       ELSE /\ pc' = [pc EXCEPT ![t] = "step"]
            /\ lv' = [lv EXCEPT ![t] = [op |-> "Next", b |-> b,
                                        option |-> sTEP_NEXT_RECORD, len |-> 0]]
            /\ ret' = [ret EXCEPT ![t] = NoRet]
            /\ batch' = [batch EXCEPT ![b].late = @ \/ batch[b].status = sTATUS_BATCH_END]
    /\ UNCHANGED <<codec, connVars, writeVars, readVars, nb, isDirty, closeVars, kpc, crash>>

FinalizeCall(t, b) ==
    /\ Running
    /\ pc[t] = "idle"
    /\ b \in Given
    /\ IF batch[b].err # NoErr \/ batch[b].status = sTATUS_BATCH_END
       THEN /\ ret' = [ret EXCEPT ![t] = Ret("Finalize", b, FALSE, batch[b].err)]
            /\ UNCHANGED <<pc, lv>>
       ELSE /\ pc' = [pc EXCEPT ![t] = "step"]
            /\ lv' = [lv EXCEPT ![t] = [op |-> "Finalize", b |-> b,
                                        option |-> sTEP_FINALIZE, len |-> 0]]
            /\ ret' = [ret EXCEPT ![t] = NoRet]
    /\ UNCHANGED <<codec, connVars, writeVars, readVars, batchVars, closeVars, kpc, crash>>

ScanCall(t, b, kinds) ==
    /\ Running
    /\ pc[t] = "idle"
    /\ b \in Given
    /\ LET r == ScanResult(batch[b], kinds, OldDest(kinds))
       IN  /\ crash' = r.crash
           /\ ret' = [ret EXCEPT ![t] =
                        IF r.crash = "none"
                        THEN [Ret("Scan", b, FALSE, r.err) EXCEPT !.dest = r.dest]
                        ELSE NoRet]
    /\ UNCHANGED <<codec, connVars, writeVars, readVars, batchVars, pc, lv, closeVars, kpc>>

----------------------------------------------------------------------------
(* Session.Close *)

\* session.ticker.Stop()
CloseBegin(c) ==
    /\ Running
    /\ cpc[c] = "idle"
    /\ closeCalls < MaxCloseCalls
    /\ closeCalls' = closeCalls + 1
    /\ ticker' = [ticker EXCEPT !.stopped = TRUE]
    /\ cpc' = [cpc EXCEPT ![c] = "close_done"]
    /\ UNCHANGED <<codec, connClosed, peerClosed, doneClosed, writeVars, readVars, batchVars,
                   userVars, closeReturned, kpc, crash>>

\* close(session.ticker_done): closing a closed channel panics
CloseDone(c) ==
    /\ Running
    /\ cpc[c] = "close_done"
    /\ IF doneClosed
       THEN /\ crash' = "close of closed channel"
            /\ UNCHANGED <<doneClosed, cpc>>
       ELSE /\ doneClosed' = TRUE
            /\ cpc' = [cpc EXCEPT ![c] = "close_conn"]
            /\ crash' = crash
    /\ UNCHANGED <<codec, connClosed, peerClosed, ticker, writeVars, readVars, batchVars,
                   userVars, closeCalls, closeReturned, kpc>>

\* session.conn.Close() and the return
CloseConn(c) ==
    /\ Running
    /\ cpc[c] = "close_conn"
    /\ connClosed' = TRUE
    /\ cpc' = [cpc EXCEPT ![c] = "idle"]
    /\ closeReturned' = closeReturned + 1
    /\ UNCHANGED <<codec, peerClosed, ticker, doneClosed, writeVars, readVars, batchVars,
                   userVars, closeCalls, kpc, crash>>

----------------------------------------------------------------------------
(* The keepalive goroutine of Connect *)

\* the ticker puts a tick in its channel, which holds one
Tick ==
    /\ Running
    /\ ~ticker.stopped
    /\ ~ticker.pending
    /\ ticker.fired < MaxTicks
    /\ ticker' = [ticker EXCEPT !.pending = TRUE, !.fired = @ + 1]
    /\ UNCHANGED <<codec, connClosed, peerClosed, doneClosed, writeVars, readVars, batchVars,
                   userVars, closeVars, kpc, crash>>

\* select: case <-session.ticker.C
KaSelectTick ==
    /\ Running
    /\ kpc = "select"
    /\ ticker.pending
    /\ ticker' = [ticker EXCEPT !.pending = FALSE]
    /\ kpc' = "ka_lock"
    /\ UNCHANGED <<codec, connClosed, peerClosed, doneClosed, writeVars, readVars, batchVars,
                   userVars, closeVars, crash>>

\* a goroutine that goes on waiting when ticker_done is closed
KaSelectDone_Ignores ==
    /\ Running
    /\ kpc = "select"
    /\ doneClosed
    /\ kpc' = "select"
    /\ UNCHANGED <<codec, connVars, writeVars, readVars, batchVars, userVars, closeVars, crash>>

\* select: case <-session.ticker_done
KaSelectDone ==
    /\ Running
    /\ kpc = "select"
    /\ doneClosed
    /\ kpc' = "done"
    /\ UNCHANGED <<codec, connVars, writeVars, readVars, batchVars, userVars, closeVars, crash>>

(* Session.Send_special_request *)

KaLock ==
    /\ Running
    /\ kpc = "ka_lock"
    /\ mwLock = "free"
    /\ mwLock' = "ka"
    /\ kpc' = "ka_write"
    /\ UNCHANGED <<codec, connVars, mw, wire, readVars, batchVars, userVars, closeVars, crash>>

KaWrite ==
    /\ Running
    /\ kpc = "ka_write"
    /\ LET r == WriterWrite(mw, Frag(0, "ka", 1), ConnWriteErr(connClosed, peerClosed))
       IN  /\ mw' = r.mw
           /\ wire' = wire \o r.out
    /\ kpc' = "ka_flush"
    /\ UNCHANGED <<codec, connVars, mwLock, readVars, batchVars, userVars, closeVars, crash>>

\* a keepalive goroutine that goes on after a failed send
KaFlush_KeepsGoing ==
    /\ Running
    /\ kpc = "ka_flush"
    /\ LET r == WriterFlush(mw, ConnWriteErr(connClosed, peerClosed))
       IN  /\ mw' = r.mw
           /\ wire' = wire \o r.out
    /\ kpc' = "select"
    /\ mwLock' = "free"
    /\ UNCHANGED <<codec, connVars, readVars, batchVars, userVars, closeVars, crash>>

\* the flush, the deferred unlock, and the goroutine's test of the error
KaFlush ==
    /\ Running
    /\ kpc = "ka_flush"
    /\ LET r == WriterFlush(mw, ConnWriteErr(connClosed, peerClosed))
       IN  /\ mw' = r.mw
           /\ wire' = wire \o r.out
           /\ IF r.err # NoErr
              THEN /\ ticker' = [ticker EXCEPT !.stopped = TRUE]
                   /\ kpc' = "done"
              ELSE /\ ticker' = ticker
                   /\ kpc' = "select"
    /\ mwLock' = "free"
    /\ UNCHANGED <<codec, connClosed, peerClosed, doneClosed, readVars, batchVars, userVars,
                   closeVars, crash>>

----------------------------------------------------------------------------
(* The server.  It answers the batch requests that have arrived whole, in  *)
(* order.  It may send any message; srvlog[b].valid records whether what   *)
(* it has sent for batch b follows the protocol.                           *)

\* the batch requests that have arrived whole on the wire, in order
RECURSIVE ParseReqs(_, _, _, _, _)
ParseReqs(w, i, cur, need, acc) ==
    IF i > Len(w) THEN acc
    ELSE LET f == w[i] IN
         IF cur = 0
         THEN IF f.kind = "ka" THEN ParseReqs(w, i + 1, 0, 0, acc)
              ELSE IF f.kind = "tag"
              THEN ParseReqs(w, i + 1, f.req, StringSize(batch[f.req].text), acc)
              ELSE acc
         ELSE IF f.kind # "text" \/ f.n > need THEN acc
              ELSE IF f.n = need THEN ParseReqs(w, i + 1, 0, 0, Append(acc, cur))
              ELSE ParseReqs(w, i + 1, cur, need - f.n, acc)

CompleteReqs == ParseReqs(wire, 1, 0, 0, <<>>)

Layouts ==
    { [names |-> <<"id", "name">>, types |-> <<DTYPE_INT, DTYPE_VARCHAR>>],
      [names |-> <<"x">>, types |-> <<DTYPE_INT>>] }

RowChoices ==
    { <<Cell("int", 200), Cell("str", 1)>>, <<Cell("int", 200)>>,
      <<Cell("int", 7), Cell("int", 7)>>, <<>> }

ReturnCodes == {0, 7}
ErrorStates == {1, 127}

\* the Error record the server sends with the state st
ErrorMsg(st) ==
    IF st = 127 THEN Msg(RESTYP_ERROR, "ok", <<"server abort">>, <<1, 1>>, <<>>, st)
    ELSE Msg(RESTYP_ERROR, "ok", <<"divide by zero">>, <<4, 12>>, <<>>, st)

RowFits(types, vals) ==
    /\ Len(vals) = Len(types)
    /\ \A i \in 1..Len(vals) : FieldAccepts(NewField(types[i]), vals[i])

\* the messages the server may send now
ServerChoices ==
    {Msg(RESTYP_RECORD_LAYOUT, ok, l.names, l.types, <<>>, 0) :
        ok \in {"ok", "bad", "badlayout"},
        l \in IF srv.sets < MaxRecordsets THEN Layouts ELSE {}}
    \cup {Msg(RESTYP_RECORD, "ok", <<>>, <<>>, r, 0) :
        r \in IF srv.rows < MaxRows THEN RowChoices ELSE {}}
    \cup {Msg(RESTYP_RECORD_FINISHED, "ok", <<>>, <<>>, <<>>, n) :
        n \in {srv.rows, srv.rows + 1}}
    \cup {Msg(tag, "ok", <<>>, <<>>, <<>>, 0) : tag \in {RESTYP_PRINT, RESTYP_MESSAGE}}
    \cup {Msg(RESTYP_EXECUTION_FINISHED, "ok", <<>>, <<>>, <<>>, 3)}
    \cup {ErrorMsg(st) : st \in ErrorStates}
    \cup {Msg(RESTYP_BATCH_END, ok, <<>>, <<>>, <<>>, rc) :
        ok \in {"ok", "bad"}, rc \in ReturnCodes}
    \cup {Msg(tag, "ok", <<>>, <<>>, <<>>, 0) : tag \in {6, MaxUint8 + 1}}

\* m keeps the stream of the batch being answered within the protocol
ValidNext(s, m) ==
    /\ m.ok = "ok"
    /\ IF m.tag = RESTYP_RECORD_LAYOUT THEN ~s.active /\ ~s.afterErr
       ELSE IF m.tag = RESTYP_RECORD THEN s.active /\ ~s.afterErr /\ RowFits(s.types, m.vals)
       ELSE IF m.tag = RESTYP_RECORD_FINISHED THEN s.active /\ ~s.afterErr /\ m.n = s.rows
       ELSE IF m.tag = RESTYP_ERROR THEN ~s.afterErr
       ELSE IF m.tag = RESTYP_BATCH_END THEN ~s.active \/ s.afterErr
       ELSE m.tag \in {RESTYP_EXECUTION_FINISHED, RESTYP_PRINT, RESTYP_MESSAGE}

\* the server's own state after it has sent m
SrvAfter(s, m) ==
    IF m.tag = RESTYP_RECORD_LAYOUT
    THEN [s EXCEPT !.active = TRUE, !.rows = 0, !.sets = @ + 1, !.types = m.types]
    ELSE IF m.tag = RESTYP_RECORD THEN [s EXCEPT !.rows = @ + 1]
    ELSE IF m.tag = RESTYP_RECORD_FINISHED THEN [s EXCEPT !.active = FALSE]
    ELSE IF m.tag = RESTYP_ERROR THEN [s EXCEPT !.afterErr = TRUE]
    ELSE IF m.tag = RESTYP_BATCH_END THEN [NewSrv EXCEPT !.answered = s.answered + 1]
    ELSE s

\* the server sends m; full tells whether the log keeps the Error records
\* and ExecutionFinished counts too
Respond(m, full) ==
    /\ Running
    /\ ~connClosed
    /\ ~peerClosed
    /\ srv.answered < Len(CompleteReqs)
    /\ Len(net) + Len(rbuf) < MaxQueue
    /\ LET b == CompleteReqs[srv.answered + 1]
       IN  srvlog' = [srvlog EXCEPT ![b] =
                        [valid |-> @.valid /\ ValidNext(srv, m),
                         ended |-> m.tag = RESTYP_BATCH_END,
                         rc |-> IF m.tag = RESTYP_BATCH_END THEN m.n ELSE @.rc,
                         sizes |-> IF m.tag = RESTYP_RECORD_FINISHED /\ srv.active
                                   THEN Append(@.sizes, srv.rows) ELSE @.sizes,
                         errs |-> IF full /\ m.tag = RESTYP_ERROR THEN <<m>> ELSE @.errs,
                         execs |-> IF full /\ m.tag = RESTYP_EXECUTION_FINISHED
                                   THEN <<m.n>> ELSE @.execs]]
    /\ srv' = SrvAfter(srv, m)
    /\ net' = Append(net, m)
    /\ UNCHANGED <<codec, connVars, writeVars, rbuf, batchVars, userVars, closeVars, kpc, crash>>

Deliver(m) == Respond(m, FALSE)
DeliverLogged(m) == Respond(m, TRUE)

ServerSend == \E m \in ServerChoices : Deliver(m)

\* a server that sends recordsets without rows and ends batches
SimpleChoices ==
    {Msg(RESTYP_RECORD_LAYOUT, "ok", <<"x">>, <<DTYPE_INT>>, <<>>, 0) :
        k \in IF srv.sets < MaxRecordsets THEN {0} ELSE {}}
    \cup {Msg(RESTYP_BATCH_END, "ok", <<>>, <<>>, <<>>, 0)}

ServerReply == \E m \in SimpleChoices : Deliver(m)

\* a server that sends recordsets without rows, at most one Error record
\* per batch, and ends batches
ErrChoices ==
    SimpleChoices \cup {ErrorMsg(st) : st \in IF srv.afterErr THEN {} ELSE ErrorStates}

ServerAnswer == \E m \in ErrChoices : DeliverLogged(m)

\* a server that answers with recordsets of Int rows, counts of executed
\* statements, Error records and BatchEnd, in any order
ExecCounts == {3, 5}

ExecChoices ==
    {Msg(RESTYP_RECORD_LAYOUT, "ok", <<"x">>, <<DTYPE_INT>>, <<>>, 0) :
        k \in IF srv.sets < MaxRecordsets THEN {0} ELSE {}}
    \cup {Msg(RESTYP_RECORD, "ok", <<>>, <<>>, r, 0) :
        r \in IF srv.rows < MaxRows THEN {<<Cell("int", 200)>>, <<Cell("str", 1)>>} ELSE {}}
    \cup {Msg(RESTYP_RECORD_FINISHED, "ok", <<>>, <<>>, <<>>, n) :
        n \in {srv.rows, srv.rows + 1}}
    \cup {Msg(RESTYP_EXECUTION_FINISHED, "ok", <<>>, <<>>, <<>>, n) : n \in ExecCounts}
    \cup {ErrorMsg(st) : st \in ErrorStates}
    \cup {Msg(RESTYP_BATCH_END, ok, <<>>, <<>>, <<>>, rc) :
        ok \in {"ok", "bad"}, rc \in ReturnCodes}

ServerExec == \E m \in ExecChoices : DeliverLogged(m)

\* a server that only ends batches
ServerSendEnd == Deliver(Msg(RESTYP_BATCH_END, "ok", <<>>, <<>>, <<>>, 0))

\* the server closes the connection
ServerClose ==
    /\ Running
    /\ ~peerClosed
    /\ peerClosed' = TRUE
    /\ UNCHANGED <<codec, connClosed, ticker, doneClosed, writeVars, readVars, batchVars,
                   userVars, closeVars, kpc, crash>>

----------------------------------------------------------------------------
(* The codec at work: two values are appended to a buffer, a Reader is     *)
(* made on the buffer, the first value is read with a reader of some       *)
(* width, and the second with the 64-bit reader.                           *)

UintSamples ==
    {Word(n) : n \in {0, 1, 127, 128, 255, 256, 1000, 65535, 65536, 2147483647}}
    \cup {MaxUint32, <<0, 0, 0, 1, 0, 0, 0, 0>>, MinInt64, MaxUint64}

IntSamples ==
    {Word(n) : n \in {0, 1, 127, 128, 255, 256, 32767, 32768, 65536, 2147483647,
                      -1, -32, -33, -128, -129, -32768, -32769, -2147483647 - 1}}
    \cup {<<0, 0, 0, 0, 128, 0, 0, 0>>, MaxInt64,
          <<255, 255, 255, 255, 127, 255, 255, 255>>, MinInt64}

\* the values appended after the first
NextSamples == {Word(5), Word(300)}

Widths == {8, 16, 32, 64}

\* bbb = AppendUint64(AppendUint64(bbb[:0], v), w); m := NewReader(bytes.NewBuffer(bbb))
AppendUints(v, w) ==
    /\ codec.phase = "idle"
    /\ LET bbb == AppendUint64(AppendUint64(<<>>, v), w)
       IN  codec' = [NoCodec EXCEPT !.phase = "appended", !.kind = "uint",
                                    !.v = v, !.w = w, !.bbb = bbb, !.br = bbb]
    /\ UNCHANGED sessionVars

\* bbb = AppendInt64(AppendInt64(bbb[:0], v), w); m := NewReader(bytes.NewBuffer(bbb))
AppendInts(v, w) ==
    /\ codec.phase = "idle"
    /\ LET bbb == AppendInt64(AppendInt64(<<>>, v), w)
       IN  codec' = [NoCodec EXCEPT !.phase = "appended", !.kind = "int",
                                    !.v = v, !.w = w, !.bbb = bbb, !.br = bbb]
    /\ UNCHANGED sessionVars

\* m.ReadUint8(), ReadUint16(), ReadUint32(), ReadUint64() or the same for Int
ReadFirst(n) ==
    /\ codec.phase = "appended"
    /\ LET r == IF codec.kind = "uint" THEN ReadUintN(codec.br, n)
                ELSE ReadIntN(codec.br, n)
       IN  codec' = [codec EXCEPT !.phase = "read1", !.n = n, !.r1 = r, !.br = r.br]
    /\ UNCHANGED sessionVars

\* m.ReadUint64() or m.ReadInt64()
ReadSecond ==
    /\ codec.phase = "read1"
    /\ LET r == IF codec.kind = "uint" THEN ReadUintN(codec.br, 64)
                ELSE ReadIntN(codec.br, 64)
       IN  codec' = [codec EXCEPT !.phase = "read2", !.r2 = r, !.br = r.br]
    /\ UNCHANGED sessionVars

\* the buffer and the Reader are dropped
DropBuffer ==
    /\ codec.phase = "read2"
    /\ codec' = NoCodec
    /\ UNCHANGED sessionVars

NextCodec ==
    \/ \E v \in UintSamples, w \in NextSamples : AppendUints(v, w)
    \/ \E v \in IntSamples, w \in NextSamples : AppendInts(v, w)
    \/ \E n \in Widths : ReadFirst(n)
    \/ ReadSecond
    \/ DropBuffer

SpecCodec == Init /\ [][NextCodec]_vars

----------------------------------------------------------------------------
(* NextType at work: a Reader is made on a buffer, which is empty, one     *)
(* byte of any value, or an integer that AppendUint64 or AppendInt64       *)
(* encoded and a second one behind it; NextType is called, and then the    *)
(* reader ReadSimpleType chooses for an integer.                           *)

Bytes == 0..255

\* m := NewReader(bytes.NewBuffer(bbb)) on the bytes bbb
MakeReader(bbb) ==
    /\ codec.phase = "idle"
    /\ codec' = [NoCodec EXCEPT !.phase = "made", !.kind = "raw", !.bbb = bbb, !.br = bbb]
    /\ UNCHANGED sessionVars

\* objtype, err = m.NextType(): the Reader keeps its bytes
PeekType ==
    /\ codec.phase \in {"made", "appended"}
    /\ codec' = [codec EXCEPT !.phase = "peeked", !.r1 = NextType(codec.br)]
    /\ UNCHANGED sessionVars

\* ReadSimpleType, for the types UintType and IntType
ReadSimpleType ==
    /\ codec.phase = "peeked"
    /\ LET t == NextType(codec.br) IN
       /\ t.err = "nil" /\ t.type \in {"UintType", "IntType"}
       /\ LET r == IF t.type = "UintType" THEN ReadUint64(codec.br) ELSE ReadInt64(codec.br)
          IN  codec' = [codec EXCEPT !.phase = "read2", !.r2 = r, !.br = r.br]
    /\ UNCHANGED sessionVars

\* the Reader is dropped after NextType
DropReader ==
    /\ codec.phase = "peeked"
    /\ codec' = NoCodec
    /\ UNCHANGED sessionVars

NextPeek ==
    \/ \E b \in Bytes : MakeReader(<<b>>)
    \/ MakeReader(<<>>)
    \/ \E v \in UintSamples, w \in NextSamples : AppendUints(v, w)
    \/ \E v \in IntSamples, w \in NextSamples : AppendInts(v, w)
    \/ PeekType
    \/ ReadSimpleType
    \/ DropReader
    \/ DropBuffer

SpecPeek == Init /\ [][NextPeek]_vars

----------------------------------------------------------------------------
(* The headers at work: a header and an integer are appended to a buffer,  *)
(* the header is read with the reader of its family and the integer with   *)
(* ReadUint64.                                                             *)

Families == {"str", "bin", "array", "map"}

\* the sizes of Test_string_header, Test_bytes_header, Test_array_header and
\* Test_map_header
HeaderSamples ==
    {Word(n) : n \in {0, 10, 15, 16, 31, 32, 100, 255, 256, 32767, 65535, 65536,
                      1431655765, 2147483647}}
    \cup {<<0, 0, 0, 0, 128, 0, 0, 0>>, MaxUint32}

\* bbb = AppendUint64(Append...Header(bbb[:0], sz), w); m := NewReader(bytes.NewBuffer(bbb))
AppendHeaders(family, sz, w) ==
    /\ codec.phase = "idle"
    /\ LET bbb == AppendUint64(AppendHeader(family, <<>>, sz), w)
       IN  codec' = [NoCodec EXCEPT !.phase = "appended", !.kind = family,
                                    !.v = sz, !.w = w, !.bbb = bbb, !.br = bbb]
    /\ UNCHANGED sessionVars

\* res, err = m.ReadStringHeader(), ReadBytesHeader(), ReadArrayHeader(), ReadMapHeader()
ReadHeaderFirst ==
    /\ codec.phase = "appended"
    /\ LET r == ReadHeader(codec.kind, codec.br)
       IN  codec' = [codec EXCEPT !.phase = "read1", !.r1 = r, !.br = r.br]
    /\ UNCHANGED sessionVars

\* m.ReadUint64() after the header
ReadAfterHeader ==
    /\ codec.phase = "read1"
    /\ LET r == ReadUint64(codec.br)
       IN  codec' = [codec EXCEPT !.phase = "read2", !.r2 = r, !.br = r.br]
    /\ UNCHANGED sessionVars

NextHeader ==
    \/ \E f \in Families, sz \in HeaderSamples, w \in NextSamples : AppendHeaders(f, sz, w)
    \/ ReadHeaderFirst
    \/ ReadAfterHeader
    \/ DropBuffer

SpecHeader == Init /\ [][NextHeader]_vars

----------------------------------------------------------------------------
(* The getters and Scan at work on a row of fields.                        *)

AllTypes == {DTYPE_VOID, DTYPE_BOOLEAN, DTYPE_VARBINARY, DTYPE_VARCHAR, DTYPE_BIT,
             DTYPE_TINYINT, DTYPE_SMALLINT, DTYPE_INT, DTYPE_BIGINT, DTYPE_MONEY,
             DTYPE_NUMERIC, DTYPE_FLOAT, DTYPE_DATE, DTYPE_TIME, DTYPE_DATETIME}

\* values a field of the datatype can hold
FieldValues(dtype) ==
    CASE dtype = DTYPE_VOID -> {}
      [] dtype = DTYPE_BOOLEAN -> {Cell("bool", 1)}
      [] dtype = DTYPE_VARBINARY -> {Cell("bin", 1)}
      [] dtype = DTYPE_VARCHAR -> {Cell("str", 0), Cell("str", 1), Cell("str", 2)}
      [] dtype = DTYPE_BIT -> {Cell("int", 0), Cell("int", 1)}
      [] dtype = DTYPE_TINYINT -> {Cell("int", 0), Cell("int", 127), Cell("int", 128), Cell("int", 255)}
      [] dtype = DTYPE_SMALLINT -> {Cell("int", -32768), Cell("int", -129), Cell("int", -128),
                                    Cell("int", 256), Cell("int", 32767)}
      [] dtype = DTYPE_INT -> {Cell("int", -2147483647 - 1), Cell("int", -32769), Cell("int", -1),
                               Cell("int", 32768), Cell("int", 65535), Cell("int", 65536),
                               Cell("int", 2147483647)}
      [] dtype = DTYPE_BIGINT -> {Cell("int64", w) :
                                    w \in {MinInt64, <<255, 255, 255, 255, 127, 255, 255, 255>>,
                                           Word(-1), Word(0), <<0, 0, 0, 0, 128, 0, 0, 0>>,
                                           MaxUint32, <<0, 0, 0, 1, 0, 0, 0, 0>>, MaxInt64}}
      [] dtype = DTYPE_MONEY -> {Cell("dec", 1)}
      [] dtype = DTYPE_NUMERIC -> {Cell("dec", 2)}
      [] dtype = DTYPE_FLOAT -> {Cell("float", 0), Cell("float", 3)}
      [] dtype \in {DTYPE_DATE, DTYPE_TIME, DTYPE_DATETIME} -> {Cell("time", 5)}

\* the fields of a datatype: null as new_field makes it, or holding a value
Fields(dtype) ==
    {NewField(dtype)} \cup
    {[NewField(dtype) EXCEPT !.isnull = FALSE, !.val = c] : c \in FieldValues(dtype)}

AllFields == UNION {Fields(d) : d \in AllTypes}

\* a batch that holds the row: after Next has returned true, with or
\* without an Error record read on the way
RowBatch(row, e) ==
    [NewBatch EXCEPT !.op = "Query", !.given = TRUE, !.recordsetCount = 1,
                     !.status = sTATUS_RECORD_AVAILABLE, !.recordCount = 1,
                     !.colnameList = Slice([i \in 1..Len(row) |-> "c"]),
                     !.colnameMap = Map(EmptyMap),
                     !.record = Slice(row), !.err = e]

\* a batch at its layout, and a batch that has ended
LayoutBatch(row) ==
    [RowBatch([i \in 1..Len(row) |-> NewField(row[i].dtype)], NoErr)
        EXCEPT !.status = sTATUS_RECORD_LAYOUT_AVAILABLE, !.recordCount = 0]

EndedBatch == [NewBatch EXCEPT !.op = "Query", !.given = TRUE, !.status = sTATUS_BATCH_END]

\* the rows of the batches: one field of any kind, or an integer and one
\* more field
Rows ==
    {<<f>> : f \in AllFields}
    \cup {<<f, g>> : f \in Fields(DTYPE_INT), g \in Fields(DTYPE_TINYINT) \cup Fields(DTYPE_VARCHAR)}

RowBatches ==
    {RowBatch(row, e) : row \in Rows, e \in {NoErr}}
    \cup {RowBatch(<<f>>, e) : f \in Fields(DTYPE_TINYINT), e \in {newBatchError(ReadErrorInfo(ErrorMsg(1)))}}
    \cup {LayoutBatch(<<f>>) : f \in Fields(DTYPE_INT)}
    \cup {EndedBatch}

\* the destinations of a call of Scan
DestKinds == IntKinds \cup {"string", "chan"}
DestLists == {<<k>> : k \in DestKinds} \cup {<<k, l>> : k \in {"int16", "uint64", "chan"}, l \in {"uint8", "chan", "string"}}

\* a batch is at hand
TakeBatch(b) ==
    /\ codec.phase = "idle"
    /\ codec' = [phase |-> "batch", b |-> b]
    /\ UNCHANGED sessionVars

\* b.ColBool(0), b.ColBinary(0), ... on the batch at hand
CallGetter(g) ==
    /\ codec.phase = "batch"
    /\ codec.b.status = sTATUS_RECORD_AVAILABLE
    /\ codec' = [phase |-> "got", b |-> codec.b, g |-> g, r |-> ColGet(g, codec.b, 1)]
    /\ UNCHANGED sessionVars

\* b.Scan(dest...) on the batch at hand
CallScan(kinds) ==
    /\ codec.phase = "batch"
    /\ codec' = [phase |-> "scanned", b |-> codec.b, kinds |-> kinds,
                 r |-> ScanResult(codec.b, kinds, OldDest(kinds))]
    /\ UNCHANGED sessionVars

\* the batch is left
DropBatch ==
    /\ codec.phase \in {"got", "scanned"}
    /\ codec' = NoCodec
    /\ UNCHANGED sessionVars

NextRow ==
    \/ \E b \in RowBatches : TakeBatch(b)
    \/ \E g \in Getters : CallGetter(g)
    \/ \E k \in DestLists : CallScan(k)
    \/ DropBatch

SpecRow == Init /\ [][NextRow]_vars

----------------------------------------------------------------------------
(* Connect.  login holds the call: the socket ("none", "open", "closed"),  *)
(* the bytes sent, the bytes the server has answered and whether it has    *)
(* closed the connection, and what the call has returned: a session or     *)
(* none, an error, the keepalive goroutine ("none", "running"), a panic.   *)

OptionNames == {"opt_showtree", "opt_no_cf", "opt_no_exec"}

\* the keys of the authentication map: an option only when it is true
AuthKeys(opt) == {"login_name", "password", "database"} \cup opt

NoLogin ==
    [phase |-> "idle", interval |-> 0, sock |-> "none", sent |-> <<>>, resp |-> <<>>,
     peer |-> "open", session |-> FALSE, ka |-> "none", err |-> "nil", crash |-> "none"]

\* net.Dial succeeds; the request is written to the Writer and flushed
ConnectSend(interval, opt, flushErr) ==
    /\ codec.phase = "idle"
    /\ codec' = IF flushErr
                THEN [NoLogin EXCEPT !.phase = "returned", !.interval = interval,
                                     !.sock = "closed", !.peer = "closed", !.err = "reset"]
                ELSE [NoLogin EXCEPT !.phase = "sent", !.interval = interval, !.sock = "open",
                                     !.sent = <<REQTYP_AUTH, AuthKeys(opt)>>]
    /\ UNCHANGED sessionVars

\* net.Dial fails
ConnectDialFails ==
    /\ codec.phase = "idle"
    /\ codec' = [NoLogin EXCEPT !.phase = "returned", !.err = "dial"]
    /\ UNCHANGED sessionVars

\* the server answers with the bytes bs, or closes the connection
LoginAnswer(bs) ==
    /\ codec.phase = "sent"
    /\ codec.resp = <<>> /\ codec.peer = "open"
    /\ codec' = IF bs = <<>> THEN [codec EXCEPT !.peer = "closed"]
                ELSE [codec EXCEPT !.resp = bs]
    /\ UNCHANGED sessionVars

\* a Connect that takes every tag that is not LOGIN_FAILED as a success
ConnectRead_NotFailed(c) ==
    LET r == ReadUintN(c.resp, 8) IN
    IF r.err # "nil" THEN [c EXCEPT !.phase = "returned", !.sock = "closed", !.err = r.err]
    ELSE IF r.val = Word(RESTYP_LOGIN_FAILED)
    THEN [c EXCEPT !.phase = "returned", !.sock = "closed", !.err = "Login failed"]
    ELSE [c EXCEPT !.phase = "returned", !.session = TRUE, !.ka = "running"]

\* mr.ReadUint8() and what follows it in Connect
ConnectRead(c) ==
    LET r == ReadUintN(c.resp, 8) IN
    IF r.err # "nil" THEN [c EXCEPT !.phase = "returned", !.sock = "closed", !.err = r.err]
    ELSE IF r.val # Word(RESTYP_LOGIN_SUCCESS)
    THEN [c EXCEPT !.phase = "returned", !.sock = "closed", !.err = "Login failed"]
    ELSE IF c.interval <= 0
    THEN [c EXCEPT !.phase = "panic", !.crash = "non-positive interval for NewTicker"]
    ELSE [c EXCEPT !.phase = "returned", !.session = TRUE, !.ka = "running"]

\* the read of the response returns: bytes have come, or the connection
\* was closed
ConnectReturn ==
    /\ codec.phase = "sent"
    /\ codec.resp # <<>> \/ codec.peer = "closed"
    /\ codec' = ConnectRead(codec)
    /\ UNCHANGED sessionVars

\* the outcome is dropped
ConnectAgain ==
    /\ codec.phase \in {"returned", "panic"}
    /\ codec' = NoCodec
    /\ UNCHANGED sessionVars

Intervals == {0 - 1, 0, 1, KEEPALIVE_INTERVAL}

\* the bytes a server may answer the AUTH request with: the tags 0, 1 and
\* others as a fixint or as a uint8, a uint16, nil, a negative fixint, a
\* uint8 cut short, or nothing
LoginAnswers ==
    {<<RESTYP_LOGIN_FAILED>>, <<RESTYP_LOGIN_SUCCESS>>, <<RESTYP_RECORD_LAYOUT>>, <<127>>,
     <<M_UINT8, 0>>, <<M_UINT8, 1>>, <<M_UINT8, 255>>, <<M_UINT16, 0, 1>>, <<M_UINT16, 1, 0>>,
     <<M_UINT16, 1, 1>>, <<M_NIL>>, <<255>>, <<M_UINT8>>, <<>>}

NextConnect ==
    \/ \E i \in Intervals, opt \in SUBSET OptionNames, f \in BOOLEAN : ConnectSend(i, opt, f)
    \/ ConnectDialFails
    \/ \E bs \in LoginAnswers : LoginAnswer(bs)
    \/ ConnectReturn
    \/ ConnectAgain

SpecConnect == Init /\ [][NextConnect]_vars

----------------------------------------------------------------------------
(* Varchar.read_value at work: a value is appended to a buffer, as the     *)
(* server sends it, and a Varchar field reads it.                          *)

\* texts and the number of characters of each: "", "a", "abc", "abcde",
\* e-acute, "a" e-acute, the euro sign, "x" euro "y", an emoji, and two
\* texts that are not UTF-8: the byte ff, and "a" with a cut e-acute
Texts ==
    { [bytes |-> <<>>, runes |-> 0],
      [bytes |-> <<97>>, runes |-> 1],
      [bytes |-> <<97, 98, 99>>, runes |-> 3],
      [bytes |-> <<97, 98, 99, 100, 101>>, runes |-> 5],
      [bytes |-> <<195, 169>>, runes |-> 1],
      [bytes |-> <<97, 195, 169>>, runes |-> 2],
      [bytes |-> <<226, 130, 172>>, runes |-> 1],
      [bytes |-> <<120, 226, 130, 172, 121>>, runes |-> 3],
      [bytes |-> <<240, 159, 152, 128>>, runes |-> 1],
      [bytes |-> <<255>>, runes |-> 1],
      [bytes |-> <<97, 195>>, runes |-> 2] }

Precisions == {0, 1, 2, 3, 5}

\* a Varchar field that holds an earlier value
OldVarchar(p, fixlen) == [precision |-> p, fixlen |-> fixlen, isnull |-> FALSE, val |-> <<122, 122>>]

\* the server's value for a Varchar column: a string, or nil for NULL
SendVarchar(p, fixlen, t, null) ==
    /\ codec.phase = "idle"
    /\ LET bbb == IF null THEN <<M_NIL>>
                  ELSE AppendStringHeader(<<>>, Word(Len(t.bytes))) \o t.bytes
       IN  codec' = [phase |-> "value", field |-> OldVarchar(p, fixlen), text |-> t,
                     null |-> null, bbb |-> bbb, br |-> bbb]
    /\ UNCHANGED sessionVars

\* field.read_value(mr)
ReadVarchar ==
    /\ codec.phase = "value"
    /\ LET r == VarcharReadValue(codec.field, codec.br)
       IN  codec' = [codec EXCEPT !.phase = "decoded", !.field = r.field, !.br = r.br]
                    @@ [err |-> r.err]
    /\ UNCHANGED sessionVars

\* the field and the buffer are dropped
DropField ==
    /\ codec.phase = "decoded"
    /\ codec' = NoCodec
    /\ UNCHANGED sessionVars

NextVarchar ==
    \/ \E p \in Precisions, fixlen \in BOOLEAN, t \in Texts, null \in BOOLEAN :
          SendVarchar(p, fixlen, t, null)
    \/ ReadVarchar
    \/ DropField

SpecVarchar == Init /\ [][NextVarchar]_vars

----------------------------------------------------------------------------
(* Date.read_value and Datetime.read_value at work.                        *)

\* days since January 1 of year 1: that day, the next, the last of 1969,
\* the first and the second of 1970, the last of 9999, the largest uint32
DeltaDays == {Word(0), Word(1), Word(719161), Word(719162), Word(719163), Word(3652058), MaxUint32}

\* seconds: none, an hour, the last of a day, a day, the largest uint32
DeltaSeconds == {Word(0), Word(3600), Word(86399), Word(86400), MaxUint32}

\* nanoseconds: none, half a second, the last of a second, a second, a
\* second and a half, the largest uint32
DeltaNs == {Word(0), Word(500000000), Word(999999999), E9, Word(1500000000), MaxUint32}

\* a field that holds an earlier value
OldTime == [isnull |-> FALSE, val |-> UTC(TimeUnix(Word(86400), Word(0)))]

\* the server's value for a DATETIME column: an array of sz elements, or nil
SendDatetime(sz, d, sec, ns, null) ==
    /\ codec.phase = "idle"
    /\ LET elems == AppendUint64(AppendUint64(AppendUint64(<<>>, d), sec), ns)
           bbb == IF null THEN <<M_NIL>> ELSE AppendArrayHeader(<<>>, Word(sz)) \o elems
       IN  codec' = [phase |-> "value", dtype |-> DTYPE_DATETIME, field |-> OldTime,
                     null |-> null, sz |-> sz, days |-> d, seconds |-> sec, ns |-> ns,
                     bbb |-> bbb, br |-> bbb]
    /\ UNCHANGED sessionVars

\* the server's value for a DATE column: a number of days, or nil
SendDate(d, null) ==
    /\ codec.phase = "idle"
    /\ LET bbb == IF null THEN <<M_NIL>> ELSE AppendUint64(<<>>, d)
       IN  codec' = [phase |-> "value", dtype |-> DTYPE_DATE, field |-> OldTime,
                     null |-> null, sz |-> 1, days |-> d, seconds |-> Word(0), ns |-> Word(0),
                     bbb |-> bbb, br |-> bbb]
    /\ UNCHANGED sessionVars

\* field.read_value(mr)
ReadTime ==
    /\ codec.phase = "value"
    /\ LET r == IF codec.dtype = DTYPE_DATE THEN DateReadValue(codec.field, codec.br)
                ELSE DatetimeReadValue(codec.field, codec.br)
       IN  codec' = [codec EXCEPT !.phase = "decoded", !.field = r.field, !.br = r.br]
                    @@ [err |-> r.err]
    /\ UNCHANGED sessionVars

NextTime ==
    \/ \E sz \in {2, 3}, d \in DeltaDays, sec \in DeltaSeconds, ns \in DeltaNs, null \in BOOLEAN :
          SendDatetime(sz, d, sec, ns, null)
    \/ \E d \in DeltaDays, null \in BOOLEAN : SendDate(d, null)
    \/ ReadTime
    \/ DropField

SpecTime == Init /\ [][NextTime]_vars

----------------------------------------------------------------------------
(* An SQLpart at work: it is created from a text, values are bound to      *)
(* names and the text is asked for, in any order.                          *)

MaxBinds == 3

Literal(str) == [ph |-> FALSE, s |-> str]

Placeholder(name) == [ph |-> TRUE, s |-> name]

\* texts, and what each is made of: "a{{x}}b", "{{x}}, {{ Y }}{{X}}",
\* "ab", "{{y}}c", and two texts that NewSQLpart refuses: "{{x" and "a}}"
SQLTexts ==
    { [text |-> <<"a", "{", "{", "x", "}", "}", "b">>, pieces |-> <<Literal(<<"a">>), Placeholder(<<"x">>), Literal(<<"b">>)>>],
      [text |-> <<"{", "{", "x", "}", "}", ",", " ", "{", "{", " ", "Y", " ", "}", "}", "{", "{", "X", "}", "}">>,
       pieces |-> <<Placeholder(<<"x">>), Literal(<<",", " ">>), Placeholder(<<"y">>),
                    Placeholder(<<"x">>)>>],
      [text |-> <<"a", "b">>, pieces |-> <<Literal(<<"a", "b">>)>>],
      [text |-> <<"{", "{", "y", "}", "}", "c">>, pieces |-> <<Placeholder(<<"y">>), Literal(<<"c">>)>>],
      [text |-> <<"{", "{", "x">>, pieces |-> <<>>],
      [text |-> <<"a", "}", "}">>, pieces |-> <<>>] }

\* the names given to Bind, and the placeholder name each stands for
ParamNames ==
    { [param |-> <<"x">>, name |-> <<"x">>], [param |-> <<"X">>, name |-> <<"x">>],
      [param |-> <<"y">>, name |-> <<"y">>], [param |-> <<"z">>, name |-> <<"z">>] }

\* the values bound, and the SQL literal of each: NULL, the strings v and
\* O'H, the numbers 1 and -1.5e3 (with blanks around), and 1e2e3, which is
\* not a number
BindValues ==
    { [kind |-> "NULL", arg |-> <<>>, literal |-> <<"N", "U", "L", "L">>, valid |-> TRUE],
      [kind |-> "Str", arg |-> <<"v">>, literal |-> <<"'", "v", "'">>, valid |-> TRUE],
      [kind |-> "Str", arg |-> <<"O", "'", "H">>,
       literal |-> <<"'", "O", "'", "'", "H", "'">>, valid |-> TRUE],
      [kind |-> "Numstr", arg |-> <<"1">>, literal |-> <<"1">>, valid |-> TRUE],
      [kind |-> "Numstr", arg |-> <<" ", "-", "1", ".", "5", "e", "3", " ">>,
       literal |-> <<"-", "1", ".", "5", "e", "3">>, valid |-> TRUE],
      [kind |-> "Numstr", arg |-> <<"1", "e", "2", "e", "3">>, literal |-> <<>>,
       valid |-> FALSE] }

NotCalled == [called |-> FALSE]

\* part := NewSQLpart(text); log is the list of the Bind calls made
CreatePart(t) ==
    /\ codec.phase = "idle"
    /\ LET part == NewSQLpart(t.text) IN
       codec' = IF part.panic THEN [phase |-> "panicked", sample |-> t]
                ELSE [phase |-> "part", sample |-> t, part |-> part, log |-> <<>>,
                      out |-> NotCalled]
    /\ UNCHANGED sessionVars

\* part.BindNULL(param), part.BindStr(param, arg), part.BindNumstr(param, arg)
Bind(p, v) ==
    /\ codec.phase = "part"
    /\ Len(codec.log) < MaxBinds
    /\ LET part == IF v.kind = "NULL" THEN BindNULL(codec.part, p.param)
                   ELSE IF v.kind = "Str" THEN BindStr(codec.part, p.param, v.arg)
                   ELSE BindNumstr(codec.part, p.param, v.arg)
       IN  codec' = [codec EXCEPT !.part = part, !.out = NotCalled,
                                  !.log = Append(@, [name |-> p.name, literal |-> v.literal,
                                                     valid |-> v.valid])]
    /\ UNCHANGED sessionVars

\* s, err := part.Text()
CallText ==
    /\ codec.phase = "part"
    /\ ~codec.out.called
    /\ LET r == Text(codec.part) IN
       codec' = IF r.panic THEN [phase |-> "panicked", sample |-> codec.sample]
                ELSE [codec EXCEPT !.out = [called |-> TRUE, s |-> r.s, err |-> r.err]]
    /\ UNCHANGED sessionVars

\* the part is dropped
DropPart ==
    /\ codec.phase \in {"part", "panicked"}
    /\ codec' = NoCodec
    /\ UNCHANGED sessionVars

NextPart ==
    \/ \E t \in SQLTexts : CreatePart(t)
    \/ \E p \in ParamNames, v \in BindValues : Bind(p, v)
    \/ CallText
    \/ DropPart

SpecPart == Init /\ [][NextPart]_vars

----------------------------------------------------------------------------
(* Specifications *)

ShortText == 10
LongText == 5000

ScanInputs == {<<"uint8">>, <<"int8">>, <<"int64", "int64">>, <<"int64", "chan">>}

\* one user thread and the server, which sends any stream and may close
\* the connection; Close is not called and the keepalive ticker does not fire
Next ==
    \/ \E op \in {"Query", "Execute"} : QueryBegin("u1", op, ShortText, MaxStreams)
    \/ SetDirty("u1")
    \/ SendLock("u1")
    \/ SendTag("u1")
    \/ SendText("u1")
    \/ SendFlush("u1")
    \/ StepRead("u1")
    \/ \E b \in Batches : NextCall("u1", b)
    \/ \E b \in Batches : FinalizeCall("u1", b)
    \/ \E b \in Batches, k \in ScanInputs : ScanCall("u1", b, k)
    \/ ServerSend
    \/ ServerClose

Spec == Init /\ [][Next]_vars

\* a thread that is in step goes on when its read can return
FairSpec == Spec /\ WF_vars(StepRead("u1"))

\* one user thread that submits batches one after the other
NextSeq ==
    \/ \E op \in {"Query", "Execute"} : QueryBegin("u1", op, ShortText, MaxBatches)
    \/ SetDirty("u1")
    \/ SendLock("u1")
    \/ SendTag("u1")
    \/ SendText("u1")
    \/ SendFlush("u1")
    \/ StepRead("u1")
    \/ \E b \in Batches : NextCall("u1", b)
    \/ \E b \in Batches : FinalizeCall("u1", b)
    \/ ServerReply
    \/ ServerClose

SpecSeq == Init /\ [][NextSeq]_vars

\* one user thread that submits batches one after the other to a server
\* that may answer with an Error record
NextErr ==
    \/ \E op \in {"Query", "Execute"} : QueryBegin("u1", op, ShortText, MaxBatches)
    \/ SetDirty("u1")
    \/ SendLock("u1")
    \/ SendTag("u1")
    \/ SendText("u1")
    \/ SendFlush("u1")
    \/ StepRead("u1")
    \/ \E b \in Batches : NextCall("u1", b)
    \/ \E b \in Batches : FinalizeCall("u1", b)
    \/ ServerAnswer
    \/ ServerClose

SpecErr == Init /\ [][NextErr]_vars

\* one user thread that calls Execute, and Finalize on the batches it got
NextExec ==
    \/ QueryBegin("u1", "Execute", ShortText, MaxStreams)
    \/ SetDirty("u1")
    \/ SendLock("u1")
    \/ SendTag("u1")
    \/ SendText("u1")
    \/ SendFlush("u1")
    \/ StepRead("u1")
    \/ \E b \in Batches : FinalizeCall("u1", b)
    \/ ServerExec
    \/ ServerClose

SpecExec == Init /\ [][NextExec]_vars

\* the sizes of the batch texts around the limit
TextSizes == {ShortText, BATCH_TEXT_SIZE_MAX, BATCH_TEXT_SIZE_MAX + 1}

\* one user thread that sends texts of a size below, at and above the limit
\* on a session that the server may close and that a thread may close
NextSend ==
    \/ \E len \in TextSizes : QueryBegin("u1", "Execute", len, MaxBatches)
    \/ SetDirty("u1")
    \/ SendLock("u1")
    \/ SendTag("u1")
    \/ SendText("u1")
    \/ SendFlush("u1")
    \/ StepRead("u1")
    \/ CloseBegin("c1")
    \/ CloseDone("c1")
    \/ CloseConn("c1")
    \/ ServerSendEnd
    \/ ServerClose

SpecSend == Init /\ [][NextSend]_vars

\* the call and the text of each user thread of the session
OpOf(t) == IF t = "u1" THEN "Query" ELSE "Execute"
TextOf(t) == IF t = "u1" THEN LongText ELSE ShortText

\* two user threads and the keepalive goroutine send on one session; the
\* server may close the connection
NextConc ==
    \/ \E t \in Users : QueryBegin(t, OpOf(t), TextOf(t), MaxBatches)
    \/ \E t \in Users : SetDirty(t)
    \/ \E t \in Users : SendLock(t)
    \/ \E t \in Users : SendTag(t)
    \/ \E t \in Users : SendText(t)
    \/ \E t \in Users : SendFlush(t)
    \/ \E t \in Users : StepRead(t)
    \/ Tick
    \/ KaSelectTick
    \/ KaLock
    \/ KaWrite
    \/ KaFlush
    \/ ServerSendEnd
    \/ ServerClose

SpecConc == Init /\ [][NextConc]_vars

\* two user threads and the keepalive goroutine write on a session that the
\* server may close and that a thread may close
NextWrite ==
    \/ \E t \in Users : QueryBegin(t, OpOf(t), TextOf(t), MaxBatches)
    \/ \E t \in Users : SetDirty(t)
    \/ \E t \in Users : SendLock(t)
    \/ \E t \in Users : SendTag(t)
    \/ \E t \in Users : SendText(t)
    \/ \E t \in Users : SendFlush(t)
    \/ \E t \in Users : StepRead(t)
    \/ \E c \in Closers : CloseBegin(c)
    \/ \E c \in Closers : CloseDone(c)
    \/ \E c \in Closers : CloseConn(c)
    \/ Tick
    \/ KaSelectTick
    \/ KaSelectDone
    \/ KaLock
    \/ KaWrite
    \/ KaFlush
    \/ ServerSendEnd
    \/ ServerClose

SpecWrite == Init /\ [][NextWrite]_vars

\* one user thread, the keepalive goroutine and a thread that calls Close
NextClose ==
    \/ QueryBegin("u1", "Query", ShortText, MaxStreams)
    \/ SetDirty("u1")
    \/ SendLock("u1")
    \/ SendTag("u1")
    \/ SendText("u1")
    \/ SendFlush("u1")
    \/ StepRead("u1")
    \/ \E b \in Batches : NextCall("u1", b)
    \/ \E b \in Batches : FinalizeCall("u1", b)
    \/ \E c \in Closers : CloseBegin(c)
    \/ \E c \in Closers : CloseDone(c)
    \/ \E c \in Closers : CloseConn(c)
    \/ Tick
    \/ KaSelectTick
    \/ KaSelectDone
    \/ KaLock
    \/ KaWrite
    \/ KaFlush
    \/ ServerReply

SpecClose == Init /\ [][NextClose]_vars

\* one user thread that sends a batch, the keepalive goroutine, a thread that
\* calls Close, and a server that may close the connection
NextAlive ==
    \/ QueryBegin("u1", "Query", ShortText, MaxStreams)
    \/ SetDirty("u1")
    \/ SendLock("u1")
    \/ SendTag("u1")
    \/ SendText("u1")
    \/ SendFlush("u1")
    \/ StepRead("u1")
    \/ \E c \in Closers : CloseBegin(c)
    \/ \E c \in Closers : CloseDone(c)
    \/ \E c \in Closers : CloseConn(c)
    \/ Tick
    \/ KaSelectTick
    \/ KaSelectDone
    \/ KaLock
    \/ KaWrite
    \/ KaFlush
    \/ ServerSendEnd
    \/ ServerClose

SpecAlive == Init /\ [][NextAlive]_vars

\* every goroutine that can run does run: the keepalive goroutine leaves its
\* select when a case is ready, gets the mutex when it is free again and
\* again, and goes on in Send_special_request; a thread in Send_batch goes on
\* and releases the mutex; a thread in Session.Close goes on
FairAlive ==
    /\ SpecAlive
    /\ WF_vars(KaSelectTick \/ KaSelectDone)
    /\ SF_vars(KaLock)
    /\ WF_vars(KaWrite)
    /\ WF_vars(KaFlush)
    /\ WF_vars(SendTag("u1") \/ SendText("u1") \/ SendFlush("u1"))
    /\ WF_vars(\E c \in Closers : CloseDone(c))
    /\ WF_vars(\E c \in Closers : CloseConn(c))

----------------------------------------------------------------------------
(* Properties of the batch response state machine *)

\* Batch.RecordCount, Batch.ExistsNextRecordset
RecordCount(b) == batch[b].recordCount
ExistsNextRecordset(b) == batch[b].status = sTATUS_RECORD_LAYOUT_AVAILABLE

KnownTags ==
    {RESTYP_RECORD_LAYOUT, RESTYP_RECORD, RESTYP_RECORD_FINISHED, RESTYP_EXECUTION_FINISHED,
     RESTYP_PRINT, RESTYP_MESSAGE, RESTYP_ERROR, RESTYP_BATCH_END}

\* no Next was called on a batch that had reached batch end
NoLateNext == \A b \in Batches : ~batch[b].late

\* thread t is in a call that drives batch b to its end
Finishing(t, b) == pc[t] = "step" /\ lv[t].b = b /\ lv[t].option = sTEP_FINALIZE

\* Execute or Finalize has returned to thread t, for batch b, with no transport error
Finished(t, b) ==
    /\ pc[t] = "idle"
    /\ ret[t].op \in {"Execute", "Finalize"}
    /\ ret[t].b = b
    /\ ~IsTransportErr(batch[b].err)

\* batch b is at batch end with the server's return code, and the connection
\* is clean as long as no later batch has been begun on it
AtBatchEnd(b) ==
    /\ batch[b].status = sTATUS_BATCH_END
    /\ batch[b].rc = srvlog[b].rc
    /\ nb = b => ~isDirty

\* in this step the thread t, in step, takes the message ReadMsg
Consumes(t) ==
    /\ pc[t] = "step"
    /\ Len(net') + Len(rbuf') < Len(net) + Len(rbuf)

\* in this step the thread t begins a call of Next, Finalize or Scan on batch b
CallsOn(t, b) ==
    /\ pc[t] = "idle"
    /\ \/ pc'[t] = "step" /\ lv'[t].b = b
       \/ /\ ret'[t] # ret[t]
          /\ ret'[t].op \in {"Next", "Finalize", "Scan"}
          /\ ret'[t].b = b

\* the stream the server has sent for batch b follows the protocol (layouts,
\* rows that fit them, RecordFinished with the count of rows sent, an Error
\* followed only by information and BatchEnd): then a call of Execute or
\* Finalize that has returned without a transport error has read BatchEnd(rc)
\* and left the batch at batch end with Rc() = rc and the connection clean,
\* and one that is under way when the BatchEnd has been sent can read on
C1_SafeAtReturn ==
    \A t \in Users, b \in Batches :
        (srvlog[b].valid /\ NoLateNext) =>
            /\ Finished(t, b) => srvlog[b].ended /\ AtBatchEnd(b)
            /\ (Finishing(t, b) /\ srvlog[b].ended) =>
                   crash = "none" /\ ReadReady /\ ReadErr = NoErr

\* C1: when the server's stream for a batch follows the protocol and ends in
\* BatchEnd(rc), a call of Execute, or of Finalize on a Query batch at any
\* point of its iteration, is never stuck nor aborted, it returns, and when
\* it has returned the batch is in state BatchEnd, Rc() is rc and the
\* connection is not dirty.
C1_ValidStreamReachesBatchEnd ==
    /\ []C1_SafeAtReturn
    /\ \A b \in Batches :
          (Finishing("u1", b) /\ srvlog[b].valid /\ srvlog[b].ended /\ NoLateNext)
              ~> (Finished("u1", b) /\ AtBatchEnd(b))

\* Execute has driven a stream of two recordsets, an ExecutionFinished and
\* BatchEnd(7) to its end
C1_Witness ==
    \E b \in Batches :
        /\ Finished("u1", b) /\ ret["u1"].op = "Execute" /\ srvlog[b].valid
        /\ batch[b].recordsetCount = 2 /\ batch[b].execRecordCount = 3
        /\ batch[b].status = sTATUS_BATCH_END /\ batch[b].rc = 7 /\ ~isDirty

\* in this step the thread t calls Query or Execute
CallsQuery(t) ==
    /\ pc[t] = "idle"
    /\ \/ pc'[t] = "setdirty"
       \/ ret'[t] # ret[t] /\ ret'[t].op \in {"Query", "Execute"}

\* the last batch made on the connection has not reached batch end
PreviousBatchOpen == nb >= 1 /\ batch[nb].status # sTATUS_BATCH_END

C3_NoOpAfterError ==
    [][\A t \in Users, b \in Batches :
        (batch[b].err # NoErr /\ CallsOn(t, b)) =>
            /\ pc'[t] = "idle"
            /\ UNCHANGED <<connVars, writeVars, readVars, batchVars, crash>>
            /\ ret'[t].op = "Next" => ~ret'[t].ok
            /\ ret'[t].op \in {"Finalize", "Scan"} => ret'[t].err = batch[b].err
            /\ \A i \in DOMAIN ret'[t].dest : ret'[t].dest[i] = Cell("old", 0)]_vars

\* Scan was called on a batch that holds a record and the recordcount error
C3_Witness ==
    \E b \in Batches :
        /\ ret["u1"].op = "Scan" /\ ret["u1"].b = b
        /\ batch[b].err = ErrMismatch /\ ret["u1"].err = ErrMismatch
        /\ batch[b].status = sTATUS_RECORD_AVAILABLE

\* C4: when Next has returned false with no error, RecordCount() is the
\* number of rows of the recordset that has just finished, whether another
\* recordset follows (ExistsNextRecordset() is true) or the batch has ended.
C4_RecordCountAfterRecordset ==
    \A t \in Users, b \in Batches :
        LET done == IF ExistsNextRecordset(b) THEN batch[b].recordsetCount - 1
                    ELSE batch[b].recordsetCount
        IN  ( /\ pc[t] = "idle" /\ ret[t].op = "Next" /\ ret[t].b = b /\ ~ret[t].ok
              /\ batch[b].err = NoErr /\ srvlog[b].valid /\ NoLateNext
              /\ done >= 1 /\ done <= Len(srvlog[b].sizes) )
            => RecordCount(b) = srvlog[b].sizes[done]

\* C5: no call of Session.Close crashes the process.
C5_CloseIsIdempotent == closeCalls >= 1 => crash # "close of closed channel"

\* in this step the thread t, alone in step, goes on in step
Steps(t) == pc[t] = "step" /\ (pc'[t] # pc[t] \/ batch' # batch)

\* C6: when a call of Next, Finalize, Query or Execute is in step for a batch
\* that is not at BatchEnd, nothing is left in the reader and the session
\* has been closed, the read fails: the batch records the closed-connection
\* error, the call returns (false for Next, the error for Finalize), and from
\* then on the batch keeps the error and never reaches BatchEnd.
C6_CloseFailsPendingRead ==
    [][/\ \A t \in Users :
            LET b == lv[t].b IN
            ( /\ Steps(t) /\ connClosed /\ rbuf = <<>>
              /\ batch[b].status # sTATUS_BATCH_END ) =>
                /\ batch'[b].err = ErrClosed
                /\ batch'[b].status = batch[b].status
                /\ pc'[t] = "idle"
                /\ ~ret'[t].ok
                /\ ret'[t].op \in {"Finalize", "Execute"} => ret'[t].err = ErrClosed
       /\ \A b \in Batches :
            (batch[b].err = ErrClosed /\ batch[b].status # sTATUS_BATCH_END) =>
                /\ batch'[b].err = ErrClosed
                /\ batch'[b].status # sTATUS_BATCH_END]_vars

\* Next waits for a response on a recordset and Close has returned
C6_Witness ==
    \E b \in Batches :
        /\ pc["u1"] = "step" /\ lv["u1"].op = "Next" /\ lv["u1"].b = b
        /\ batch[b].status = sTATUS_RECORD_LAYOUT_AVAILABLE /\ batch[b].err = NoErr
        /\ closeReturned = 1 /\ rbuf = <<>> /\ net = <<>>

\* w, from fragment i on, holds whole requests one after the other, the last
\* one maybe cut short; cur is the batch whose text is under way (0: none)
\* and need the bytes of it still to come
RECURSIVE Framed(_, _, _, _)
Framed(w, i, cur, need) ==
    IF i > Len(w) THEN TRUE
    ELSE LET f == w[i] IN
         IF cur = 0
         THEN IF f.kind = "ka" THEN Framed(w, i + 1, 0, 0)
              ELSE IF f.kind = "tag"
              THEN Framed(w, i + 1, f.req, StringSize(batch[f.req].text))
              ELSE FALSE
         ELSE /\ f.kind = "text"
              /\ f.req = cur
              /\ f.n <= need
              /\ Framed(w, i + 1, IF f.n = need THEN 0 ELSE cur, need - f.n)

\* C7: what the socket has taken is a sequence of whole requests, the last
\* one maybe not ended yet: between the tag of a batch and the last byte of
\* its text there is no keepalive byte and no byte of another batch.
C7_WholeRequestsOnWire == Framed(wire, 1, 0, 0)

\* the socket has taken a keepalive and two batches, one in two writes,
\* before the server has answered either batch
C7_Witness ==
    \E i \in DOMAIN wire, j \in DOMAIN wire, k \in DOMAIN wire :
        /\ srv.answered = 0
        /\ wire[i].kind = "ka"
        /\ wire[j].kind = "text" /\ wire[j].n = BufioSize - 1
        /\ wire[k].kind = "text" /\ wire[k].req # wire[j].req

\* the keepalive goroutine is in Send_special_request
KaSending == kpc \in {"ka_lock", "ka_write", "ka_flush"}

\* C8 as stated: once Close has returned the keepalive goroutine is not in
\* a send.
C8_NoSendAfterClose == closeReturned > 0 => ~KaSending

\* C8: once Close has returned the socket takes no byte any more, a send of
\* the keepalive goroutine that is under way or begins then fails and ends
\* the goroutine, and the goroutine, once ended, stays so.
C8_SendAfterCloseFails ==
    [][closeReturned > 0 =>
        /\ wire' = wire
        /\ (kpc = "ka_flush" /\ kpc' # kpc) => (kpc' = "done" /\ ticker'.stopped)
        /\ kpc = "done" => kpc' = "done"]_vars

\* Close has returned and the keepalive goroutine is about to write
C8_Witness == closeReturned > 0 /\ kpc = "ka_write" /\ mw.doomed = NoErr

\* C9: when step reads a RecordFinished whose count is the batch's
\* recordCount, the batch goes to state RecordEnd with that count and no new
\* error; when the count differs, the recordcount error is recorded, the call
\* returns false (Next) or the error (Execute, Finalize), and the batch does
\* not go to RecordEnd.
C9_RecordFinishedCompares ==
    [][\A t \in Users :
        LET b == lv[t].b IN
        (Consumes(t) /\ ReadMsg.tag = RESTYP_RECORD_FINISHED /\ ReadMsg.ok = "ok") =>
            IF ReadMsg.n = batch[b].recordCount
            THEN /\ batch'[b].status = sTATUS_RECORD_END
                 /\ RecordCount(b)' = ReadMsg.n
                 /\ batch'[b].err = batch[b].err
            ELSE /\ batch'[b].err = ErrMismatch
                 /\ batch'[b].status = batch[b].status
                 /\ pc'[t] = "idle"
                 /\ ~ret'[t].ok
                 /\ ret'[t].op \in {"Execute", "Finalize"} => ret'[t].err = ErrMismatch]_vars

\* a recordset of one row has ended with the count 1
C9_Witness ==
    \E b \in Batches :
        /\ batch[b].status = sTATUS_RECORD_END /\ RecordCount(b) = 1
        /\ batch[b].err = NoErr /\ srvlog[b].sizes = <<1>>

\* C10: when step reads a tag outside the eight response tags, the batch
\* records an error, the call returns false (Next) or the error, and the
\* process goes on.
C10_UnknownTagIsBatchError ==
    [][\A t \in Users :
        LET b == lv[t].b IN
        (Consumes(t) /\ ReadMsg.tag \notin KnownTags) =>
            /\ crash' = "none"
            /\ batch'[b].err # NoErr
            /\ pc'[t] = "idle"
            /\ ~ret'[t].ok]_vars

\* a call is in step for batch b
InStep(b) == \E t \in Users : pc[t] = "step" /\ lv[t].b = b

\* the server has sent for batch b an Error record whose state is not 127
ErrorSent(b) == srvlog[b].errs # <<>> /\ srvlog[b].errs[1].n # 127

\* the transport works
TransportUp == ~connClosed /\ ~peerClosed

\* C11: when the server's stream for a batch holds an Error record with a
\* state other than 127 and then BatchEnd, the call that reads the Error
\* reads on to BatchEnd; the batch then is in state BatchEnd, Err() is the
\* batch error with the server's state, line, position and text, printed as
\* 'line:pos[state] text', Rc() is the server's return code and the
\* connection is not dirty; a following Query or Execute is accepted, and
\* its request reaches the server whole when the transport works.
C11_ErrorThenBatchEnd ==
    /\ [](\A b \in Batches :
            (srvlog[b].valid /\ NoLateNext /\ ErrorSent(b)) =>
                /\ (batch[b].err.k = "BatchError" /\ ~InStep(b)) =>
                       batch[b].status = sTATUS_BATCH_END
                /\ batch[b].status = sTATUS_BATCH_END =>
                       /\ batch[b].err.k = "BatchError"
                       /\ batch[b].err.state = srvlog[b].errs[1].n
                       /\ BatchErrorText(batch[b].err) = "4:12[1] divide by zero"
                       /\ AtBatchEnd(b))
    /\ [][\A t \in Users :
            ( /\ nb >= 1 /\ srvlog[nb].valid /\ NoLateNext /\ ErrorSent(nb)
              /\ batch[nb].status = sTATUS_BATCH_END ) =>
                /\ CallsQuery(t) => pc'[t] = "setdirty"
                /\ (pc[t] = "send_flush" /\ pc'[t] # pc[t] /\ TransportUp) =>
                       /\ pc'[t] = "step"
                       /\ batch'[lv[t].b].status = sTATUS_BATCH_SENT
                       /\ CompleteReqs' = Append(CompleteReqs, lv[t].b)]_vars

\* the first batch has ended with the error '4:12[1] divide by zero' and the
\* request of a second batch has reached the server
C11_Witness ==
    /\ nb = 2 /\ NoLateNext /\ srvlog[1].valid /\ ErrorSent(1)
    /\ batch[1].status = sTATUS_BATCH_END
    /\ batch[1].err.k = "BatchError"
    /\ BatchErrorText(batch[1].err) = "4:12[1] divide by zero"
    /\ batch[2].status = sTATUS_BATCH_SENT
    /\ CompleteReqs = <<1, 2>>

\* Execute has returned the batch b to thread t with no error, or with a
\* batch error
ExecuteReturned(t, b) ==
    /\ pc[t] = "idle" /\ ret[t].op = "Execute" /\ ret[t].b = b
    /\ ret[t].err = NoErr \/ ret[t].err.k = "BatchError"

\* C12: when Execute has returned a batch with no transport or protocol
\* error, the server has sent BatchEnd and nothing the server has sent is
\* left unread, the batch is in state BatchEnd, Rc() is the server's return
\* code, ExecRecordCount() is the count of the last ExecutionFinished (0 when
\* there was none), and the returned error is Err(): nil when the server
\* sent no Error record, and else the batch error made of the last one.
C12_ExecuteRunsToBatchEnd ==
    \A t \in Users, b \in Batches :
        ExecuteReturned(t, b) =>
            /\ srvlog[b].ended /\ net = <<>> /\ rbuf = <<>>
            /\ batch[b].status = sTATUS_BATCH_END
            /\ batch[b].rc = srvlog[b].rc
            /\ batch[b].execRecordCount =
                   IF srvlog[b].execs = <<>> THEN 0 ELSE srvlog[b].execs[1]
            /\ ret[t].err = batch[b].err
            /\ IF srvlog[b].errs = <<>> THEN ret[t].err = NoErr
               ELSE /\ ret[t].err.k = "BatchError"
                    /\ ret[t].err.state = srvlog[b].errs[1].n
                    /\ ret[t].err.text = srvlog[b].errs[1].names[1]

\* Execute has returned after a recordset of one row, an ExecutionFinished
\* with 5, an Error record and BatchEnd(7)
C12_Witness ==
    \E b \in Batches :
        /\ ExecuteReturned("u1", b)
        /\ srvlog[b].sizes = <<1>> /\ batch[b].recordsetCount = 1
        /\ batch[b].execRecordCount = 5
        /\ ret["u1"].err.k = "BatchError"
        /\ batch[b].rc = 7

\* Query has returned the batch b to thread t, which has made no call since
QueryReturned(t, b) == pc[t] = "idle" /\ ret[t].op = "Query" /\ ret[t].b = b

C14_ColnameMapHoldsUniqueNames ==
    \A b \in Batches :
        batch[b].status = sTATUS_RECORD_LAYOUT_AVAILABLE =>
            LET names == batch[b].colnameList.v
                once == {n \in {names[i] : i \in DOMAIN names} :
                            n # "" /\ Cardinality({i \in DOMAIN names : names[i] = n}) = 1}
            IN  /\ ~batch[b].colnameMap.nil
                /\ DOMAIN batch[b].colnameMap.v = once
                /\ \A n \in once : names[batch[b].colnameMap.v[n] + 1] = n

\* the column-name list, the column-name map and the row buffer of batch b
\* are nil
Cleared(b) ==
    batch[b].colnameList.nil /\ batch[b].colnameMap.nil /\ batch[b].record.nil

\* C15 as stated: in every state where the status is RecordEnd the list,
\* the map and the row buffer are nil.
C15_RecordEndIsCleared ==
    \A b \in Batches : batch[b].status = sTATUS_RECORD_END => Cleared(b)

\* C15: in every state where the status is RecordEnd and Err() is nil or a
\* batch error, the column-name list, the column-name map and the row
\* buffer are nil; the status becomes RecordEnd only by reading a
\* RecordFinished, RecordCount() then is the count of that message, and it
\* does not change as long as the status is RecordEnd.
C15_RecordEndClearedUnlessFailed ==
    /\ [](\A b \in Batches :
            ( /\ batch[b].status = sTATUS_RECORD_END
              /\ batch[b].err = NoErr \/ batch[b].err.k = "BatchError" ) => Cleared(b))
    /\ [][\A b \in Batches :
            batch'[b].status = sTATUS_RECORD_END =>
                IF \E t \in Users : Consumes(t) /\ lv[t].b = b
                                      /\ ReadMsg.tag = RESTYP_RECORD_FINISHED
                                      /\ batch'[b].err = batch[b].err
                THEN RecordCount(b)' = ReadMsg.n /\ Cleared(b)'
                ELSE /\ batch[b].status = sTATUS_RECORD_END
                     /\ RecordCount(b)' = RecordCount(b)]_vars

\* the second recordset of a batch has ended after the first, of one row
C15_Witness ==
    \E b \in Batches :
        /\ batch[b].status = sTATUS_RECORD_END /\ batch[b].err = NoErr
        /\ batch[b].recordsetCount = 2 /\ srvlog[b].sizes = <<1, 0>>
        /\ RecordCount(b) = 0 /\ Cleared(b)

\* Writer.Error
WriterError == mw.doomed

\* C16: a failure of the socket under the Writer sets the Writer's error;
\* once it is set it is never cleared nor replaced, no byte reaches the
\* socket any more, Error() returns it, and every Flush returns it: a
\* Send_batch under way fails with it and the keepalive goroutine ends.
C16_WriterErrorIsSticky ==
    /\ [](mw.berr # NoErr => WriterError = mw.berr)
    /\ [][/\ (WriterError = NoErr /\ WriterError' # NoErr) =>
               WriterError' = ConnWriteErr(connClosed, peerClosed)
          /\ WriterError # NoErr =>
               /\ WriterError' = WriterError
               /\ wire' = wire
               /\ mw'.buf = mw.buf
               /\ \A t \in Users :
                     (pc[t] = "send_flush" /\ pc'[t] # pc[t]) =>
                        /\ pc'[t] = "idle"
                        /\ ret'[t].err = WriterError
                        /\ batch'[lv[t].b].err = WriterError
               /\ (kpc = "ka_flush" /\ kpc' # kpc) => kpc' = "done"]_vars

\* the Writer failed when the server had closed the connection, the session
\* has been closed since, and a thread is about to write a request
C16_Witness ==
    /\ WriterError = ErrReset /\ connClosed
    /\ \E t \in Users : pc[t] = "send_tag"

\* the number of bytes AppendUint64 is to use for val
UintBand(val) ==
    IF ULe(val, Word(127)) THEN 1
    ELSE IF ULe(val, Word(255)) THEN 2
    ELSE IF ULe(val, Word(65535)) THEN 3
    ELSE IF ULe(val, MaxUint32) THEN 5
    ELSE 9

\* the number of bytes AppendInt64 is to use for val
IntBand(val) ==
    IF SLe(Word(-32), val) /\ SLe(val, Word(127)) THEN 1
    ELSE IF SLe(Word(-128), val) /\ SLe(val, Word(-33)) THEN 2
    ELSE IF SLe(Word(-32768), val) /\ SLe(val, Word(32767)) THEN 3
    ELSE IF SLe(Word(-2147483647 - 1), val) /\ SLe(val, Word(2147483647)) THEN 5
    ELSE 9

\* the bytes of the first value appended to the buffer
FirstBytes == SubSeq(codec.bbb, 1, Len(codec.bbb) - Len(codec.br))

\* C17: the encoding of an unsigned value by AppendUint64 has 1 byte for a
\* value up to 127, 2 up to 255, 3 up to 65535, 5 up to 2^32-1 and 9 above,
\* and ReadUint64 on it returns the value and no error, and leaves the
\* Reader at the first byte after it.
C17_Uint64RoundTrip ==
    (codec.kind = "uint" /\ codec.phase = "read1" /\ codec.n = 64) =>
        /\ codec.r1.err = "nil"
        /\ codec.r1.val = codec.v
        /\ Len(FirstBytes) = UintBand(codec.v)
        /\ codec.bbb = FirstBytes \o AppendUint64(<<>>, codec.w)

\* 2^32 was appended, in 9 bytes, and read back
C17_Witness ==
    /\ codec.kind = "uint" /\ codec.phase = "read1" /\ codec.n = 64
    /\ codec.v = <<0, 0, 0, 1, 0, 0, 0, 0>> /\ codec.r1.val = codec.v
    /\ Len(FirstBytes) = 9

\* C18: the encoding of a signed value by AppendInt64 has 1 byte for a
\* value from -32 to 127, 2 from -128 to -33, 3 for the other values of
\* int16, 5 for the other values of int32 and 9 for the others, and
\* ReadInt64 on it returns the value and no error, and leaves the Reader at
\* the first byte after it.
C18_Int64RoundTrip ==
    (codec.kind = "int" /\ codec.phase = "read1" /\ codec.n = 64) =>
        /\ codec.r1.err = "nil"
        /\ codec.r1.val = codec.v
        /\ Len(FirstBytes) = IntBand(codec.v)
        /\ codec.bbb = FirstBytes \o AppendInt64(<<>>, codec.w)

\* -129 was appended, in 3 bytes, and read back
C18_Witness ==
    /\ codec.kind = "int" /\ codec.phase = "read1" /\ codec.n = 64
    /\ codec.v = Word(-129) /\ codec.r1.val = codec.v
    /\ Len(FirstBytes) = 3

\* C19 as stated: for a value that is not negative AppendInt64 gives the
\* bytes that AppendUint64 gives.
C19_PositiveIntsUseUnsignedTable ==
    (codec.kind = "int" /\ codec.phase = "appended" /\ SLe(Word(0), codec.v)) =>
        codec.bbb = AppendUint64(AppendUint64(<<>>, codec.v), codec.w)

\* C19: for a value from 0 to 127 AppendInt64 gives the one byte that
\* AppendUint64 gives; for a larger value it gives a signed encoding, int16
\* up to 32767 (3 bytes), int32 up to 2^31-1 (5 bytes) and int64 above (9
\* bytes), which is not what AppendUint64 gives.
C19_PositiveIntsUseSignedFormats ==
    (codec.kind = "int" /\ codec.phase = "appended" /\ SLe(Word(0), codec.v)) =>
        LET bytes == AppendInt64(<<>>, codec.v)
            ubytes == AppendUint64(<<>>, codec.v)
        IN  /\ codec.bbb = bytes \o AppendInt64(<<>>, codec.w)
            /\ IF SLe(codec.v, Word(127))
               THEN bytes = ubytes /\ bytes = <<codec.v[8]>>
               ELSE /\ bytes # ubytes
                    /\ bytes[1] = IF SLe(codec.v, Word(32767)) THEN M_INT16
                                  ELSE IF SLe(codec.v, Word(2147483647)) THEN M_INT32
                                  ELSE M_INT64
                    /\ SubSeq(bytes, 2, Len(bytes)) = LowBytes(codec.v, Len(bytes) - 1)
                    /\ Len(bytes) = IntBand(codec.v)

\* 255 was appended as an int64: three bytes, where AppendUint64 gives two
C19_Witness ==
    /\ codec.kind = "int" /\ codec.phase = "appended" /\ codec.v = Word(255)
    /\ AppendInt64(<<>>, codec.v) = <<M_INT16, 0, 255>>
    /\ AppendUint64(<<>>, codec.v) = <<M_UINT8, 255>>

\* C20: ReadUintN on a value that AppendUint64 encoded returns the value
\* when it is at most 2^N-1 and else the overflow error and 0, ReadIntN on
\* a value that AppendInt64 encoded returns the value when it is in the
\* range of intN and else the overflow error and 0; either way the Reader
\* is left at the first byte after the value, and the value that follows is
\* read back by the 64-bit reader.
C20_NarrowReadsOverflow ==
    /\ (codec.phase \in {"read1", "read2"}) =>
          LET fits == IF codec.kind = "uint" THEN ULe(codec.v, MaxUintN(codec.n))
                      ELSE SLe(MinIntN(codec.n), codec.v) /\ SLe(codec.v, MaxIntN(codec.n))
              enc == IF codec.kind = "uint" THEN AppendUint64(<<>>, codec.v)
                     ELSE AppendInt64(<<>>, codec.v)
          IN  /\ codec.r1.err = IF fits THEN "nil" ELSE "overflow"
              /\ codec.r1.val = IF fits THEN codec.v ELSE Word(0)
              /\ codec.bbb = enc \o codec.r1.br
    /\ codec.phase = "read2" =>
          codec.r2.err = "nil" /\ codec.r2.val = codec.w /\ codec.br = <<>>

\* reading 256 with ReadUint8 gave the overflow error, and the 300 that
\* followed was read back
C20_Witness ==
    /\ codec.kind = "uint" /\ codec.phase = "read2" /\ codec.n = 8
    /\ codec.v = Word(256) /\ codec.r1.err = "overflow"
    /\ codec.w = Word(300) /\ codec.r2.val = Word(300) /\ codec.r2.err = "nil"

\* the type the msgpack format gives to a first byte, the positive fixints
\* taken as fixint
Family(b, fixint) ==
    IF b <= 127 THEN fixint
    ELSE IF b <= 143 THEN "MapType"
    ELSE IF b <= 159 THEN "ArrayType"
    ELSE IF b <= 191 THEN "StrType"
    ELSE IF b = 192 THEN "NilType"
    ELSE IF b = 193 THEN "InvalidType"
    ELSE IF b <= 195 THEN "BoolType"
    ELSE IF b <= 198 THEN "BinType"
    ELSE IF b <= 201 THEN "InvalidType"
    ELSE IF b = 202 THEN "Float32Type"
    ELSE IF b = 203 THEN "Float64Type"
    ELSE IF b <= 207 THEN "UintType"
    ELSE IF b <= 211 THEN "IntType"
    ELSE IF b <= 216 THEN "InvalidType"
    ELSE IF b <= 219 THEN "StrType"
    ELSE IF b <= 221 THEN "ArrayType"
    ELSE IF b <= 223 THEN "MapType"
    ELSE "IntType"

\* NextType has been called on a Reader that holds a byte
Peeked == codec.phase \in {"peeked", "read2"} /\ codec.kind \in {"raw", "uint", "int"}

\* the integer behind the peeked prefix has been read
PeekedAndRead == codec.phase = "read2" /\ codec.kind \in {"uint", "int"}

\* C21 as stated: NextType leaves the Reader as it was and gives the type of
\* the first byte, UintType for a positive fixint (0x00..0x7f) and for the
\* uint8/16/32/64 prefixes, IntType for a negative fixint and for the
\* int8/16/32/64 prefixes, and for the other bytes the type of their family;
\* the value read next is the value whose prefix was peeked.
C21_NextTypeClassifies ==
    /\ (codec.phase = "peeked" /\ codec.bbb # <<>>) =>
          /\ codec.r1 = [type |-> Family(codec.bbb[1], "UintType"), err |-> "nil"]
          /\ codec.br = codec.bbb
    /\ PeekedAndRead =>
          codec.r2.err = "nil" /\ codec.r2.val = codec.v

\* C21: as above, with IntType for a positive fixint; on an empty Reader
\* NextType returns InvalidType and the error of the read.
C21_NextTypeFixintIsInt ==
    /\ codec.phase = "peeked" =>
          /\ codec.br = codec.bbb
          /\ codec.r1 = IF codec.bbb = <<>> THEN [type |-> "InvalidType", err |-> "EOF"]
                        ELSE [type |-> Family(codec.bbb[1], "IntType"), err |-> "nil"]
    /\ PeekedAndRead =>
          /\ codec.r2.err = "nil" /\ codec.r2.val = codec.v
          /\ codec.br = AppendUint64(<<>>, codec.w) \/ codec.br = AppendInt64(<<>>, codec.w)

\* 127 was appended with AppendUint64; NextType said IntType, and the value
\* read next was 127
C21_Witness ==
    /\ codec.phase = "read2" /\ codec.kind = "uint" /\ codec.v = Word(127)
    /\ codec.r1 = [type |-> "IntType", err |-> "nil"]
    /\ codec.r2.val = Word(127)

\* the number of bytes of the header of each family for the size sz
HeaderBand(family, sz) ==
    IF family = "str"
    THEN (IF ULe(sz, Word(31)) THEN 1 ELSE IF ULe(sz, Word(255)) THEN 2
          ELSE IF ULe(sz, Word(65535)) THEN 3 ELSE 5)
    ELSE IF family = "bin"
    THEN (IF ULe(sz, Word(255)) THEN 2 ELSE IF ULe(sz, Word(65535)) THEN 3 ELSE 5)
    ELSE (IF ULe(sz, Word(15)) THEN 1 ELSE IF ULe(sz, Word(65535)) THEN 3 ELSE 5)

\* C22: the header of a string has 1 byte for a size up to 31, 2 up to 255,
\* 3 up to 65535 and 5 above; the header of a byte slice has 2, 3 or 5 bytes
\* and never the fix form; the header of an array or of a map has 1 byte for
\* a size up to 15, 3 up to 65535 and 5 above; the reader of the family
\* returns the size and no error and leaves the Reader at the first byte
\* after the header.
C22_HeadersRoundTrip ==
    (codec.kind \in Families /\ codec.phase \in {"read1", "read2"}) =>
        LET hdr == SubSeq(codec.bbb, 1, Len(codec.bbb) - Len(codec.r1.br)) IN
        /\ codec.r1.err = "nil"
        /\ codec.r1.val = codec.v
        /\ Len(hdr) = HeaderBand(codec.kind, codec.v)
        /\ codec.bbb = hdr \o AppendUint64(<<>>, codec.w)
        /\ codec.kind = "bin" => hdr[1] \in {M_BIN8, M_BIN16, M_BIN32}
        /\ codec.phase = "read2" =>
              codec.r2.err = "nil" /\ codec.r2.val = codec.w /\ codec.br = <<>>

\* the header of a string of 31 bytes was read back from one byte, and the
\* header of a byte slice of 2^32-1 bytes from five
C22_Witness ==
    /\ codec.phase = "read2" /\ codec.r1.val = codec.v /\ codec.r2.val = codec.w
    /\ \/ codec.kind = "str" /\ codec.v = Word(31) /\ Len(codec.bbb) = 1 + Len(AppendUint64(<<>>, codec.w))
       \/ codec.kind = "bin" /\ codec.v = MaxUint32 /\ Len(codec.bbb) = 5 + Len(AppendUint64(<<>>, codec.w))

\* the datatypes of the integer columns
IntTypes == {DTYPE_BIT, DTYPE_TINYINT, DTYPE_SMALLINT, DTYPE_INT, DTYPE_BIGINT}

\* the smallest and the largest int64 an integer destination takes
KindMin(kind) ==
    CASE kind = "int8" -> Word(-128)
      [] kind = "int16" -> Word(-32768)
      [] kind = "int32" -> Word(-2147483647 - 1)
      [] kind \in {"int64", "int"} -> MinInt64
      [] OTHER -> Word(0)

KindMax(kind) ==
    CASE kind = "int8" -> Word(127)
      [] kind = "int16" -> Word(32767)
      [] kind = "int32" -> Word(2147483647)
      [] kind = "uint8" -> Word(255)
      [] kind = "uint16" -> Word(65535)
      [] kind = "uint32" -> <<0, 0, 0, 0, 255, 255, 255, 255>>
      [] OTHER -> MaxInt64

\* the int64 the column i of the row holds, 0 for NULL
IntValue(row, i) == IF row[i].isnull THEN Word(0) ELSE Int64Of(row[i])

\* the destinations of the call that Scan cannot fill: an unsupported kind,
\* or an integer kind that does not hold the value of its column
Unfillable(row, kinds) ==
    {i \in 1..Len(kinds) :
        \/ kinds[i] = "chan"
        \/ /\ kinds[i] \in IntKinds
           /\ ~(SLe(KindMin(kinds[i]), IntValue(row, i)) /\ SLe(IntValue(row, i), KindMax(kinds[i])))}

\* Scan was called, and every integer destination is on an integer column
ScanOnIntegers ==
    /\ codec.phase = "scanned"
    /\ Len(codec.kinds) = Len(codec.b.record.v)
    /\ \A i \in 1..Len(codec.kinds) :
          codec.kinds[i] \in IntKinds => codec.b.record.v[i].dtype \in IntTypes

\* C23: Scan returns nil only on a batch without error, in the state
\* RecordAvailable, and for as many destinations as there are columns.  On
\* such a batch, with integer destinations on integer columns, Scan returns
\* nil when every destination is of a supported kind and every integer
\* destination holds the value of its column; else it returns the error of
\* the first destination it cannot fill: the overflow error for an integer
\* destination (a value below or above the range of a signed one, negative
\* or too large for an unsigned one), the unsupported-kind error for a
\* destination of an unsupported kind.
C23_ScanChecks ==
    codec.phase = "scanned" =>
        LET b == codec.b
            r == codec.r
            bad == Unfillable(b.record.v, codec.kinds)
        IN  /\ (r.crash = "none" /\ r.err = NoErr) =>
                  /\ b.err = NoErr
                  /\ b.status = sTATUS_RECORD_AVAILABLE
                  /\ Len(codec.kinds) = Len(b.record.v)
            /\ b.err # NoErr => r.err = b.err /\ r.crash = "none"
            /\ (ScanOnIntegers /\ b.err = NoErr /\ b.status = sTATUS_RECORD_AVAILABLE) =>
                  /\ r.crash = "none"
                  /\ bad = {} => r.err = NoErr
                  /\ bad # {} =>
                        LET i == CHOOSE x \in bad : \A y \in bad : x <= y
                        IN  r.err = IF codec.kinds[i] = "chan" THEN ErrScanKind
                                    ELSE ErrScanOverflow

\* Scan of a column that holds -1 to a uint64 returned the overflow error,
\* and so did Scan of a column that holds 2^32 to a uint32
C23_Witness ==
    /\ ScanOnIntegers /\ codec.b.err = NoErr /\ codec.r.err = ErrScanOverflow
    /\ \/ codec.kinds = <<"uint64">> /\ IntValue(codec.b.record.v, 1) = Word(-1)
       \/ codec.kinds = <<"uint32">> /\ IntValue(codec.b.record.v, 1) = <<0, 0, 0, 1, 0, 0, 0, 0>>

\* the datatypes a getter accepts
Accepts(g) ==
    CASE g = "ColBool" -> {DTYPE_VARCHAR, DTYPE_BIT, DTYPE_TINYINT, DTYPE_SMALLINT, DTYPE_INT,
                           DTYPE_BIGINT, DTYPE_FLOAT}
      [] g = "ColBinary" -> {DTYPE_VARBINARY}
      [] g \in {"ColInt64", "ColInt"} -> IntTypes
      [] g = "ColNumeric" -> IntTypes \cup {DTYPE_MONEY, DTYPE_NUMERIC}
      [] g = "ColFloat64" -> {DTYPE_FLOAT}
      [] g \in {"ColDatetimeUTC", "ColDatetime"} -> {DTYPE_DATE, DTYPE_TIME, DTYPE_DATETIME}
      [] OTHER -> AllTypes

\* C24 as stated: a typed getter called on a column whose datatype it does
\* not accept aborts, whether the column is NULL or not; called on a column
\* whose datatype it accepts it returns, with the null flag of the column.
C24_WrongTypeGetterAborts ==
    (codec.phase = "got" /\ codec.g # "ColString") =>
        LET f == codec.b.record.v[1] IN
        IF f.dtype \in Accepts(codec.g)
        THEN codec.r.crash = "none" /\ codec.r.isnull = f.isnull
        ELSE codec.r.crash # "none"

\* C25 as stated: on a batch that has recorded an error, ColIsNull says
\* null for every column, and every getter called on a column of a datatype
\* it accepts returns its zero value with isnull true, without panic.
C25_AccessorsAfterError ==
    \A b \in Batches :
        batch[b].err # NoErr =>
            \A i \in 1..ColCount(batch[b]) :
                /\ ColIsNull(batch[b], i) = GetRes(TRUE, TRUE, "none")
                /\ \A g \in Getters :
                      batch[b].record.v[i].dtype \in Accepts(g) =>
                          /\ ColGet(g, batch[b], i).crash = "none"
                          /\ ColGet(g, batch[b], i).isnull

\* C26: when the flush of Send_batch fails, the call returns the
\* batch-too-large error, which names the limit of 100 000 bytes, if the text
\* has more than 100 000 bytes, and the error of the transport if it has
\* 100 000 bytes or fewer; when the flush succeeds Send_batch returns nil,
\* for a text of any size, and the caller goes on to read the response.
C26_SendBatchTranslates ==
    [][\A t \in Users :
          (pc[t] = "send_flush" /\ pc'[t] # "send_flush") =>
              IF mw'.doomed # NoErr
              THEN /\ pc'[t] = "idle"
                   /\ ret'[t].err = IF lv[t].len > 100000 THEN ErrTooLarge ELSE mw'.doomed
                   /\ ErrTooLarge.state = 100000
                   /\ IsTransportErr(mw'.doomed)
              ELSE /\ pc'[t] = "step"
                   /\ ret'[t] = NoRet
                   /\ batch'[lv[t].b].err = NoErr]_vars

\* a text of 100 001 bytes was sent on a closed connection and Execute
\* returned the batch-too-large error
C26_Witness ==
    /\ ret["u1"].op = "Execute" /\ ret["u1"].err = ErrTooLarge
    /\ \E b \in Batches : batch[b].text = BATCH_TEXT_SIZE_MAX + 1 /\ batch[b].err = ErrTooLarge
    /\ mw.doomed # NoErr

\* the tag the server has answered: the uint8 its bytes decode to, if they do
LoginTag == ReadUintN(codec.resp, 8)

\* the server's response tag is LOGIN_SUCCESS
LoginSucceeded == LoginTag.err = "nil" /\ LoginTag.val = Word(1)

\* Connect has come to its end, by a return or by a panic
ConnectEnded == codec.phase \in {"returned", "panic"}

C28_VarcharPadsToPrecision ==
    (codec.phase = "decoded" /\ ~codec.null) =>
        LET f == codec.field
            t == codec.text
        IN  /\ codec.err = "nil" /\ ~f.isnull /\ codec.br = <<>>
            /\ IF f.fixlen /\ t.runes < f.precision
               THEN /\ Len(f.val) = Len(t.bytes) + (f.precision - t.runes)
                    /\ SubSeq(f.val, 1, Len(t.bytes)) = t.bytes
                    /\ \A k \in (Len(t.bytes) + 1)..Len(f.val) : f.val[k] = 32
                    /\ RuneCount(f.val, 1) = f.precision
               ELSE f.val = t.bytes

\* "a" and e-acute, three bytes and two characters, was decoded by a
\* CHAR(5) field, which holds six bytes and five characters
C28_Witness ==
    /\ codec.phase = "decoded" /\ ~codec.null
    /\ codec.field.fixlen /\ codec.field.precision = 5
    /\ codec.text.bytes = <<97, 195, 169>>
    /\ codec.field.val = <<97, 195, 169, 32, 32, 32>>

\* the second -62135596800 + delta_days * 86400 + delta_seconds
InstantSecond(delta_days, delta_seconds) ==
    Add64(Add64(<<255, 255, 255, 241, 136, 110, 9, 0>>, Mul64(delta_days, Word(86400))),
          delta_seconds)

\* the time t is the instant delta_ns nanoseconds after the second sec: it
\* is n whole seconds after sec, and its nanoseconds, below 10^9, are what
\* remains of delta_ns
IsInstant(t, sec, delta_ns) ==
    /\ ULe(t.nsec, Word(999999999))
    /\ \E n \in 0..4 :
          /\ t.sec = Add64(sec, Word(n))
          /\ Add64(t.nsec, Mul64(Word(n), Word(1000000000))) = delta_ns

\* C29: a non-null Datetime value [delta_days, delta_seconds, delta_ns] is
\* decoded to the UTC time at second
\* -62135596800 + delta_days * 86400 + delta_seconds plus delta_ns
\* nanoseconds, so that [719162, 3600, 500000000] is second 3600 and
\* 500000000 nanoseconds; a non-null Date value delta_days is decoded to the
\* second -62135596800 + delta_days * 86400 with no nanoseconds, so that
\* 719162 is second 0 and 3652058 is 253402214400, December 31, 9999.
C29_DatetimeDecodesToInstant ==
    (codec.phase = "decoded" /\ codec.dtype \in {DTYPE_DATE, DTYPE_DATETIME} /\ ~codec.null
        /\ (codec.dtype = DTYPE_DATETIME => codec.sz = 3)) =>
        LET t == codec.field.val IN
        /\ codec.err = "nil" /\ ~codec.field.isnull /\ codec.br = <<>>
        /\ t.loc = "UTC"
        /\ codec.dtype = DTYPE_DATETIME =>
              /\ IsInstant(t, InstantSecond(codec.days, codec.seconds), codec.ns)
              /\ ULe(codec.ns, Word(999999999)) =>
                    /\ t.sec = InstantSecond(codec.days, codec.seconds)
                    /\ t.nsec = codec.ns
              /\ (codec.days = Word(719162) /\ codec.seconds = Word(3600)
                    /\ codec.ns = Word(500000000)) =>
                    (t.sec = Word(3600) /\ t.nsec = Word(500000000))
        /\ codec.dtype = DTYPE_DATE =>
              /\ t.sec = InstantSecond(codec.days, Word(0))
              /\ t.nsec = Word(0)
              /\ codec.days = Word(719162) => t.sec = Word(0)
              /\ codec.days = Word(3652058) => t.sec = <<0, 0, 0, 58, 255, 242, 240, 0>>

\* the Datetime value [719162, 3600, 500000000] was decoded to
\* 1970-01-01T01:00:00.5 UTC
C29_Witness ==
    /\ codec.phase = "decoded" /\ codec.dtype = DTYPE_DATETIME /\ ~codec.null /\ codec.sz = 3
    /\ codec.days = Word(719162) /\ codec.seconds = Word(3600) /\ codec.ns = Word(500000000)
    /\ codec.field.val = [sec |-> Word(3600), nsec |-> Word(500000000), loc |-> "UTC"]

\* the placeholder names of the text
PlaceholderNames == {codec.sample.pieces[k].s : k \in {j \in 1..Len(codec.sample.pieces) : codec.sample.pieces[j].ph}}

\* the Bind call that cannot be done: its name is not a placeholder of the
\* text, or its value is not a number
Refused(call) == ~call.valid \/ call.name \notin PlaceholderNames

\* the number of Bind calls made before the first one refused
Accepted ==
    IF \E k \in 1..Len(codec.log) : Refused(codec.log[k])
    THEN (CHOOSE k \in 1..Len(codec.log) :
             Refused(codec.log[k]) /\ \A j \in 1..(k - 1) : ~Refused(codec.log[j])) - 1
    ELSE Len(codec.log)

\* the value last bound to the name by the calls before the first refused
IsBound(name) == \E k \in 1..Accepted : codec.log[k].name = name

LastBound(name) ==
    codec.log[CHOOSE k \in 1..Accepted :
                 codec.log[k].name = name /\ \A j \in (k + 1)..Accepted : codec.log[j].name # name].literal

\* the text with every placeholder replaced by the value last bound
RECURSIVE FilledFrom(_)
FilledFrom(k) ==
    IF k > Len(codec.sample.pieces) THEN <<>>
    ELSE LET piece == codec.sample.pieces[k] IN
         (IF piece.ph THEN LastBound(piece.s) ELSE piece.s) \o FilledFrom(k + 1)

\* C30: on an SQLpart, a Bind of a name that is not a placeholder of the
\* text records an error; once an error is recorded the later Bind calls
\* change nothing (every placeholder holds what the calls before the error
\* gave it, and the error stays) and Text returns that error; Text returns
\* an error as long as some placeholder was never bound; a Bind fills all
\* the occurrences of its placeholder, a second Bind of a name fills them
\* all with the new value, and Text then returns the text with these values.
C30_BindAndText ==
    codec.phase = "part" =>
        LET part == codec.part
            pieces == codec.sample.pieces
        IN  /\ (part.err # NilError) = (Accepted < Len(codec.log))
            /\ Accepted < Len(codec.log) =>
                  LET call == codec.log[Accepted + 1] IN
                  IF call.valid THEN part.err = [kind |-> "not known", param |-> call.name]
                  ELSE part.err.kind = "invalid number"
            /\ Len(part.textFragments) = Len(pieces)
            /\ \A k \in 1..Len(pieces) :
                  part.textFragments[k] =
                      IF ~pieces[k].ph THEN StringFragment(pieces[k].s)
                      ELSE IF IsBound(pieces[k].s) THEN StringFragment(LastBound(pieces[k].s))
                      ELSE NilFragment
            /\ codec.out.called =>
                  IF part.err # NilError THEN codec.out.err = part.err /\ codec.out.s = <<>>
                  ELSE IF \E name \in PlaceholderNames : ~IsBound(name)
                  THEN codec.out.err.kind = "not filled" /\ ~IsBound(codec.out.err.param)
                       /\ codec.out.s = <<>>
                  ELSE codec.out.err = NilError /\ codec.out.s = FilledFrom(1)

\* on "{{x}}, {{ Y }}{{X}}": x was bound, then y, then X again with NULL,
\* and Text returned "NULL, 'v'NULL"
C30_Witness ==
    /\ codec.phase = "part" /\ codec.out.called
    /\ Len(codec.log) = 3 /\ Accepted = 3
    /\ codec.log[1].name = <<"x">> /\ codec.log[2].name = <<"y">> /\ codec.log[3].name = <<"x">>
    /\ codec.out.err = NilError
    /\ codec.out.s = <<"N", "U", "L", "L", ",", " ", "'", "v", "'", "N", "U", "L", "L">>

\* a Bind of the unknown name z was refused, a Bind of x followed, and Text
\* returned the error of the first
C30_WitnessRefused ==
    /\ codec.phase = "part" /\ codec.out.called
    /\ Len(codec.log) = 2 /\ Accepted = 0
    /\ codec.log[1].name = <<"z">> /\ codec.log[1].valid /\ codec.log[2].name = <<"x">>
    /\ codec.out.err = [kind |-> "not known", param |-> <<"z">>]

\* C31: the batch keeps the first error it records: once Err() is not nil
\* no step replaces it by a different error, be it a second Error record or
\* a failure of the read that waits for the BatchEnd after an Error record.
C31_FirstErrorIsKept ==
    [][\A b \in Batches : batch[b].err # NoErr => batch'[b].err = batch[b].err]_vars

\* in this step a thread in step takes a BatchEnd message that it can decode
TakesBatchEnd ==
    \E t \in Users :
        /\ Consumes(t)
        /\ ReadMsg.tag = RESTYP_BATCH_END
        /\ ReadMsg.ok = "ok"

\* batch b has recorded an error that is not a server Error record
Failed(b) == batch[b].err # NoErr /\ batch[b].err.k # "BatchError"

CallsNextOrFinalize(t, b) ==
    /\ pc[t] = "idle"
    /\ \/ pc'[t] = "step" /\ lv'[t].b = b
       \/ /\ ret'[t] # ret[t]
          /\ ret'[t].op \in {"Next", "Finalize"}
          /\ ret'[t].b = b

\* C33: a batch that has reached BatchEnd is terminal: a call of Next on it
\* returns false and a call of Finalize returns Err(), at once and without
\* reading from the session, so that no message of a later batch is taken
\* by a batch that has ended.
C33_EndedBatchIsTerminal ==
    [][\A t \in Users, b \in Batches :
        batch[b].status = sTATUS_BATCH_END =>
            /\ CallsNextOrFinalize(t, b) =>
                  /\ pc'[t] = "idle"
                  /\ ret'[t].op = "Next" => ~ret'[t].ok
                  /\ ret'[t].op = "Finalize" => ret'[t].err = batch[b].err
                  /\ UNCHANGED <<readVars, batchVars>>
            /\ (pc[t] = "step" /\ lv[t].b = b) => UNCHANGED <<net, rbuf>>]_vars

\* the batches in flight: made, not failed, not at batch end
InFlight == {b \in 1..nb : batch[b].err = NoErr /\ batch[b].status # sTATUS_BATCH_END}

\* the threads that have passed the dirty test of Query or Execute and have
\* not returned
PastDirtyTest == {t \in Users : pc[t] # "idle"}

\* C34: when two threads call Query or Execute at the same time on a clean
\* connection, at most one of them passes the dirty test and sends its
\* batch, the other is refused: at most one batch is in flight.
C34_OneSenderAmongThreads ==
    /\ Cardinality(InFlight) <= 1
    /\ Cardinality(PastDirtyTest) <= 1

\* the keepalive goroutine is in Send_special_request
KaInSend == kpc \in {"ka_lock", "ka_write", "ka_flush"}

\* the flush of the keepalive request, when the goroutine makes it now, fails
KaSendFails ==
    /\ kpc = "ka_flush"
    /\ WriterFlush(mw, ConnWriteErr(connClosed, peerClosed)).err # NoErr

\* C35: with every goroutine that can run running, the keepalive goroutine
\* has returned some time after Session.Close was called (or the process has
\* ended in a panic); a keepalive send that fails ends the goroutine at once,
\* with the ticker stopped; and a goroutine that has returned stays so: it
\* takes no tick, no mutex and writes nothing.
C35_KeepaliveTerminates ==
    /\ (closeCalls > 0) ~> (kpc = "done" \/ crash # "none")
    /\ [][(KaSendFails /\ kpc' # kpc) => (kpc' = "done" /\ ticker'.stopped)]_vars
    /\ [][kpc = "done" => (kpc' = "done" /\ (mwLock' = "ka") = (mwLock = "ka"))]_vars
    /\ [](kpc = "done" => mwLock # "ka")

\* Close has returned and the keepalive goroutine has returned through
\* ticker_done, after a keepalive request that went out
C35_Witness ==
    /\ closeReturned > 0 /\ doneClosed /\ kpc = "done" /\ crash = "none"
    /\ ticker.fired > 0 /\ ~ticker.pending
    /\ mw.doomed = NoErr

\* a keepalive send has failed because the server had closed the
\* connection, and the goroutine has returned though Close was never called
C35_WitnessFailed ==
    /\ closeCalls = 0 /\ peerClosed /\ kpc = "done" /\ ticker.stopped
    /\ mw.doomed # NoErr

\* the keepalive goroutine has returned and the Writer holds an error: so
\* it is after every keepalive send that has failed
AfterFailedKeepalive == kpc = "done" /\ WriterError # NoErr

\* C36: a keepalive send that fails leaves its error in the Writer that the
\* goroutine shares with Send_batch; from then on the socket takes no byte,
\* and every Send_batch that comes to its flush returns an error, which its
\* Query or Execute returns, with no batch.
C36_SendBatchFailsAfterKeepaliveFailure ==
    /\ [][(kpc = "ka_flush" /\ kpc' = "done") => WriterError' # NoErr]_vars
    /\ [][AfterFailedKeepalive =>
            /\ AfterFailedKeepalive'
            /\ wire' = wire
            /\ \A t \in Users :
                  (pc[t] = "send_flush" /\ pc'[t] # pc[t]) =>
                      /\ pc'[t] = "idle"
                      /\ ret'[t].op \in {"Query", "Execute"}
                      /\ ret'[t].err # NoErr
                      /\ ret'[t].err = SendBatchErr(WriterError, lv[t].len)
                      /\ ret'[t].b = 0]_vars

\* the keepalive request is still in the buffer, its flush has failed
\* because the server had closed the connection, nothing ever reached the
\* socket, Close was never called, and a Query made since has returned the
\* error: its own writes were dropped
C36_Witness ==
    /\ kpc = "done" /\ closeCalls = 0 /\ peerClosed
    /\ WriterError = ErrReset
    /\ mw.buf = <<Frag(0, "ka", 1)>> /\ wire = <<>>
    /\ \E t \in Users :
          /\ pc[t] = "idle" /\ ret[t].op \in {"Query", "Execute"}
          /\ ret[t].err = ErrReset /\ ret[t].b = 0

InfoTags == {RESTYP_PRINT, RESTYP_MESSAGE, RESTYP_EXECUTION_FINISHED}

\* C37: a step in which a thread takes a Print, a Message or an
\* ExecutionFinished that decodes leaves the thread inside step (no call
\* returns), and leaves the batch as it was: status, colnameList,
\* colnameMap, record, recordCount, recordsetCount, err and rc; only
\* ExecutionFinished changes execRecordCount, to the count it carries.
\* conn.isDirty and the other batches are unchanged too.
C37_InformationIsIgnored ==
    [][\A t \in Users :
          (Consumes(t) /\ ReadMsg.tag \in InfoTags /\ ReadMsg.ok = "ok") =>
              /\ pc'[t] = "step"
              /\ ret' = ret
              /\ lv' = lv
              /\ isDirty' = isDirty
              /\ crash' = crash
              /\ batch' = [batch EXCEPT ![lv[t].b].execRecordCount =
                              IF ReadMsg.tag = RESTYP_EXECUTION_FINISHED
                              THEN ReadMsg.n ELSE @]]_vars

\* a call of Next on a batch that has a row has taken an ExecutionFinished
\* and is still in step, the row still available, with a Print to read next
C37_Witness ==
    \E t \in Users :
       /\ pc[t] = "step" /\ lv[t].op = "Next"
       /\ batch[lv[t].b].status = sTATUS_RECORD_AVAILABLE
       /\ batch[lv[t].b].recordCount = 1
       /\ ~batch[lv[t].b].record.nil
       /\ batch[lv[t].b].execRecordCount = 3
       /\ batch[lv[t].b].err = NoErr
       /\ net # <<>> /\ ReadMsg.tag = RESTYP_PRINT

\* the recordset of the batch b has a layout and no RecordFinished yet
RecordsetActive(b) ==
    batch[b].status \in {sTATUS_RECORD_LAYOUT_AVAILABLE, sTATUS_RECORD_AVAILABLE}

\* C38: a step in which a thread takes a RecordLayout that decodes, for a
\* batch whose recordset is still active, leaves the batch with the names of
\* the new layout, a new name map over these names, a new row of null fields
\* of the new types, recordCount 0, recordsetCount one more, the status
\* RecordLayoutAvailable, and the err it had; Next returns false there and
\* Execute and Finalize read on.
C38_LayoutInsideRecordset ==
    [][\A t \in Users :
          LET b == lv[t].b
              m == ReadMsg
          IN  (Consumes(t) /\ m.tag = RESTYP_RECORD_LAYOUT /\ m.ok = "ok" /\ RecordsetActive(b)) =>
                 /\ batch'[b].colnameList = [nil |-> FALSE, v |-> m.names]
                 /\ ~batch'[b].colnameMap.nil
                 /\ DOMAIN batch'[b].colnameMap.v \subseteq {m.names[i] : i \in 1..Len(m.names)}
                 /\ ~batch'[b].record.nil
                 /\ Len(batch'[b].record.v) = Len(m.types)
                 /\ \A i \in 1..Len(m.types) :
                       /\ batch'[b].record.v[i].dtype = m.types[i]
                       /\ batch'[b].record.v[i].isnull
                 /\ batch'[b].recordCount = 0
                 /\ batch'[b].recordsetCount = batch[b].recordsetCount + 1
                 /\ batch'[b].status = sTATUS_RECORD_LAYOUT_AVAILABLE
                 /\ batch'[b].err = batch[b].err
                 /\ batch'[b].execRecordCount = batch[b].execRecordCount
                 /\ batch'[b].rc = batch[b].rc
                 /\ isDirty' = isDirty
                 /\ crash' = crash
                 /\ IF lv[t].option = sTEP_NEXT_RECORD
                    THEN pc'[t] = "idle" /\ ~ret'[t].ok /\ ret'[t].b = lv[t].b
                    ELSE pc'[t] = "step"]_vars

\* the second layout of a batch has been taken before any RecordFinished
\* of the first: the server has sent none for a recordset, and the batch has
\* the one-column layout, a row of one null field and no row counted
C38_Witness ==
    \E b \in Batches :
       /\ batch[b].status = sTATUS_RECORD_LAYOUT_AVAILABLE
       /\ batch[b].recordsetCount = 2
       /\ batch[b].recordCount = 0
       /\ batch[b].colnameList = Slice(<<"x">>)
       /\ batch[b].record = Slice(CreateRow(<<DTYPE_INT>>))
       /\ batch[b].err = NoErr
       /\ srvlog[b].sizes = <<>>
       /\ ~srvlog[b].valid
       /\ srv.rows = 0 /\ srv.sets = 2

\* C39: a call of Scan that has returned an error has left every
\* destination with the value it had before the call.
C39_ScanAllOrNothing ==
    \A t \in Users :
       (ret[t].op = "Scan" /\ ret[t].err # NoErr) =>
           \A i \in DOMAIN ret[t].dest : ret[t].dest[i] = Cell("old", 0)

\* the errors of Scan that come before its loop leave the destinations
C39_EarlyErrorsLeaveDest ==
    \A t \in Users :
       (ret[t].op = "Scan" /\ ret[t].err \notin {NoErr, ErrScanOverflow, ErrScanKind}) =>
           \A i \in DOMAIN ret[t].dest : ret[t].dest[i] = Cell("old", 0)

\* C40: when the last call a thread has made is a Query or an Execute that
\* returned a batch, the error the call returned is the err of that batch.
C40_ReturnedErrorIsBatchErr ==
    \A t \in Users :
       (pc[t] = "idle" /\ ret[t].op \in {"Query", "Execute"} /\ ret[t].b # 0) =>
           ret[t].err = batch[ret[t].b].err

\* the same for Execute alone
C40_ExecuteReturnsBatchErr ==
    \A t \in Users :
       (pc[t] = "idle" /\ ret[t].op = "Execute" /\ ret[t].b # 0) =>
           ret[t].err = batch[ret[t].b].err

====
